---- MODULE Spec2Model ----
(***************************************************************************)
(* The recursive fixed-point workflow compiler of sophios                  *)
(* (src/sophios/compiler.py) together with its caller main()               *)
(* (src/sophios/main.py), as a state machine.                              *)
(*                                                                         *)
(* One frame of `stack` is one activation of compile_workflow (field cw)   *)
(* together with the activation of compile_workflow_once it is currently   *)
(* running, if any (field once).  Graph accumulators (GraphReps) live in   *)
(* `heap` and are referred to by identity.                                 *)
(*                                                                         *)
(* Strings that the code builds and takes apart again are kept as          *)
(* sequences of atoms: '___'.join(xs) is the sequence xs, and              *)
(* s.split('___') is the sequence s.  An atom is a record [w, n, k]; a     *)
(* plain identifier x is [w |-> "", n |-> 0, k |-> x] and the synthetic    *)
(* step name <stem>__step__<n>__<key> is [w |-> stem, n |-> n, k |-> key]. *)
(***************************************************************************)
EXTENDS Integers, Sequences, FiniteSets, TLC

VARIABLES
    args,        \* argparse.Namespace: the command line flags read by the compiler
    tools,       \* the Tool Registry: StepId -> Tool
    root,        \* the root YamlTree handed to compile_workflow by main()
    stack,       \* activations of compile_workflow / compile_workflow_once, outermost first
    heap,        \* GraphReps / GraphData / list objects, by identity
    rootgraph,   \* identity of the GraphReps main() creates for the root
    main_pc,     \* where main() is
    exc,         \* the exception (or SystemExit) that ended compilation, "" if none
    result,      \* <<compiler_info>> once compile_workflow returned to main(), else <<>>
    error_file,  \* TRUE once main() wrote error_<stem>.txt
    exit_code,   \* process exit status, -1 while running
    stdout,      \* the warning printed before sys.exit: <<[var, file]>>, else <<>>
    cwl_run      \* run_local_async.run_cwl_workflow: its arguments, locals and subprocess

vars == <<args, tools, root, stack, heap, rootgraph, main_pc, exc, result,
          error_file, exit_code, stdout, cwl_run>>

\* compiler.py:57
max_iters == 100

\* Bounds of the explored input space.
MaxSteps == 2
MaxLoopSteps == 1

----------------------------------------------------------------------------
(* Names *)

Nm(s) == [w |-> "", n |-> 0, k |-> s]

\* utils.step_name_str(yaml_stem, i, step_key): workflow stem, position, key.
step_name_str(yaml_stem, i, step_key) == [w |-> yaml_stem, n |-> i + 1, k |-> step_key]

\* utils.parse_step_name_str(x)[0]
parse_step_name_stem(x) == x.w

\* Path(p).stem on the file names that occur.
PathStem(p) ==
    CASE p = "root.wic" -> "root"
      [] p = "defl.wic" -> "defl"
      [] p = "call.wic" -> "call"
      [] p = "ins.wic"  -> "ins"
      [] p = "loop.wic" -> "loop"
      [] p = "bad.wic"  -> "bad"
      [] p = "outer.wic" -> "outer"
      [] p = "lit.wic" -> "lit"
      [] p = "prod.cwl" -> "prod"
      [] OTHER -> p

\* str.endswith('.wic')
EndsWithWic(p) == p \in {"root.wic", "defl.wic", "call.wic", "ins.wic", "loop.wic", "bad.wic", "outer.wic", "lit.wic"}

\* type[-1] == '?'
EndsWithQ(t) == t \in {"string?", "File?"}

StepId(stem, plugin_ns) == [stem |-> stem, plugin_ns |-> plugin_ns]

----------------------------------------------------------------------------
(* Python dicts, in insertion order: sequences of [k, v] with distinct k *)

DHas(d, key) == \E j \in 1..Len(d) : d[j].k = key
DGet(d, key) == d[CHOOSE j \in 1..Len(d) : d[j].k = key].v
DPut(d, key, val) ==
    IF DHas(d, key)
    THEN [j \in 1..Len(d) |-> IF d[j].k = key THEN [k |-> key, v |-> val] ELSE d[j]]
    ELSE Append(d, [k |-> key, v |-> val])
DKeys(d) == [j \in 1..Len(d) |-> d[j].k]
DKeySet(d) == {d[j].k : j \in 1..Len(d)}

RECURSIVE DUpdate(_, _)
\* d.update(e)
DUpdate(d, e) == IF e = <<>> THEN d ELSE DUpdate(DPut(d, e[1].k, e[1].v), Tail(e))

RECURSIVE SeqFilterKeys(_, _)
\* [x for x in s if x in keys]
SeqFilterKeys(s, keys) ==
    IF s = <<>> THEN <<>>
    ELSE IF Head(s) \in keys THEN <<Head(s)>> \o SeqFilterKeys(Tail(s), keys)
    ELSE SeqFilterKeys(Tail(s), keys)

Last(s) == s[Len(s)]
Front(s) == SubSeq(s, 1, Len(s) - 1)
IsPrefix(p, s) == Len(p) <= Len(s) /\ SubSeq(s, 1, Len(p)) = p

----------------------------------------------------------------------------
(* The Tool Registry handed to the compiler (plugins.get_tools_cwl) *)

TStr(t) == [list |-> FALSE, names |-> <<t>>]
NoDefault == [has |-> FALSE, truthy |-> FALSE]
InDecl(t, dflt, fmt) == [type |-> t, dflt |-> dflt, format |-> fmt]
InFile(fmt) == InDecl(TStr("File"), NoDefault, fmt)
OutDecl(fmt) == [format |-> fmt]
Inp == <<Nm("inp")>>
Out == <<Nm("o")>>
Tool(run_stem, class, inputs, outputs) ==
    [run_stem |-> run_stem, class |-> class, inputs |-> inputs, outputs |-> outputs]

Registry ==
    (StepId("prod", "global") :>
        Tool("prod", "CommandLineTool",
             << [k |-> <<Nm("msg")>>,
                 v |-> InDecl(TStr("string"), [has |-> TRUE, truthy |-> TRUE], "")] >>,
             << [k |-> Out, v |-> OutDecl("txt")] >>))
    @@ (StepId("cons", "global") :>
        Tool("cons", "CommandLineTool",
             << [k |-> Inp, v |-> InFile("txt")],
                [k |-> <<Nm("opt")>>, v |-> InDecl(TStr("string?"), NoDefault, "")] >>,
             << [k |-> Out, v |-> OutDecl("log")] >>))
    @@ (StepId("consj", "global") :>
        Tool("consj", "CommandLineTool",
             << [k |-> Inp, v |-> InFile("json")] >>,
             << [k |-> Out, v |-> OutDecl("bin")] >>))
    @@ (StepId("conv", "global") :>
        Tool("conv", "CommandLineTool",
             << [k |-> Inp, v |-> InFile("txt")] >>,
             << [k |-> <<Nm("outj")>>, v |-> OutDecl("json")] >>))
    @@ (StepId("convb", "global") :>
        Tool("convb", "CommandLineTool",
             << [k |-> Inp, v |-> InFile("txt")] >>,
             << [k |-> <<Nm("outj")>>, v |-> OutDecl("json")] >>))
    @@ (StepId("consx", "global") :>
        Tool("consx", "CommandLineTool",
             << [k |-> Inp, v |-> InFile("xml")] >>,
             << [k |-> Out, v |-> OutDecl("bin")] >>))
    @@ (StepId("convx", "global") :>
        Tool("convx", "CommandLineTool",
             << [k |-> Inp, v |-> InFile("xml")] >>,
             << [k |-> <<Nm("outx")>>, v |-> OutDecl("xml")] >>))
    @@ (StepId("zero", "global") :>
        Tool("zero", "CommandLineTool",
             << [k |-> <<Nm("cnt")>>,
                 v |-> InDecl(TStr("int"), [has |-> TRUE, truthy |-> FALSE], "")] >>,
             << [k |-> Out, v |-> OutDecl("dat")] >>))
    @@ (StepId("odd", "global") :>
        Tool("odd", "ExpressionTool", << >>,
             << [k |-> Out, v |-> OutDecl("dat")] >>))
    @@ (StepId("special", "pluginA") :>
        Tool("special", "CommandLineTool", << >>,
             << [k |-> Out, v |-> OutDecl("dat")] >>))

\* the order in which the registry (a dict) yields its entries
RegistryOrder ==
    << StepId("prod", "global"), StepId("cons", "global"), StepId("consj", "global"),
       StepId("conv", "global"), StepId("convb", "global"), StepId("consx", "global"),
       StepId("convx", "global"), StepId("zero", "global"),
       StepId("odd", "global"), StepId("special", "pluginA") >>

----------------------------------------------------------------------------
(* Workflow ASTs (YamlTree.yml) *)

\* A binding value of a step's in: mapping.
\*   ii     !ii value                 {'wic_inline_input': v}
\*   alias  *label                    {'wic_alias': v}
\*   raw    a plain string v, or s/v when s is not empty
\*   dict   any other mapping (not hashable)
\*   source {'source': v}, or {'source': s/v} when s is not empty
Bind(t, s, v) == [t |-> t, s |-> s, v |-> v]

\* An entry of a step's out: list: the output key, anchored (&label) or not.
OutEntry(key, anchor) == [k |-> key, anchor |-> anchor]

\* A step as ast.read_ast_from_disk leaves it; for a subworkflow step `in`
\* and `out` are its parentargs and subtree holds the pre-loaded body.
Step(id, run, in, out, subtree) ==
    [id |-> id, run |-> run, in |-> in, out |-> out, subtree |-> subtree]

WicKey(i, step_key) == [n |-> i + 1, k |-> step_key]
WicStep(namespace, inference, child) ==
    [namespace |-> namespace, inference |-> inference, child |-> child]
Wic(steps) == [steps |-> steps]

Ast(steps, inputs, wic) == [steps |-> steps, inputs |-> inputs, wic |-> wic]
EmptyAst == Ast(<< >>, << >>, Wic(<< >>))

L1 == <<Nm("L")>>
M1 == <<Nm("M")>>
DeclaredInputs == << [k |-> <<Nm("winp")>>, v |-> InFile("txt")] >>

\* Steps of atomic tools.  ns is the plugin namespace annotation ("" = none).
Tpl(step, ns) == [step |-> step, ns |-> ns]

ProdL == Tpl(Step("prod", "", << >>, <<OutEntry(Out, L1)>>, << >>), "")
ConsAlias == Tpl(Step("cons", "", <<[k |-> Inp, v |-> Bind("alias", << >>, L1)]>>, << >>, << >>), "")
ConsII == Tpl(Step("cons", "", <<[k |-> Inp, v |-> Bind("ii", << >>, <<Nm("data.txt")>>)]>>, << >>, << >>), "")
ConsRawIn == Tpl(Step("cons", "", <<[k |-> Inp, v |-> Bind("raw", << >>, <<Nm("winp")>>)]>>, << >>, << >>), "")
ConsRawZ == Tpl(Step("cons", "", <<[k |-> Inp, v |-> Bind("raw", << >>, <<Nm("zzz")>>)]>>, << >>, << >>), "")
\* the raw CWL reference root__step__1__prod/o: the output of the root's first step
ConsRawOut ==
    Tpl(Step("cons", "",
             <<[k |-> Inp, v |-> Bind("raw", <<step_name_str("root", 0, "prod")>>, Out)]>>,
             << >>, << >>), "")
ConsJ == Tpl(Step("consj", "", << >>, << >>, << >>), "")
ConsX == Tpl(Step("consx", "", << >>, << >>, << >>), "")
Special == Tpl(Step("special", "", << >>, << >>, << >>), "")
SpecialA == Tpl(Step("special", "", << >>, << >>, << >>), "pluginA")
SpecialRun == Tpl(Step("special", "prod.cwl", << >>, << >>, << >>), "")
Odd == Tpl(Step("odd", "", << >>, << >>, << >>), "")
\* a tool whose only input has the default 0
Zero == Tpl(Step("zero", "", << >>, << >>, << >>), "")
SelfRef ==
    Tpl(Step("cons", "", <<[k |-> Inp, v |-> Bind("alias", << >>, M1)]>>,
             <<OutEntry(Out, M1)>>, << >>), "")

ToolTemplates ==
    {ProdL, ConsAlias, ConsII, ConsRawIn, ConsRawZ, ConsRawOut, ConsJ,
     Special, SpecialA, SpecialRun, Odd, Zero, SelfRef}

\* The AST of a workflow whose steps are the templates tpls.
BuildAst(tpls, inputs) ==
    LET idx == {j \in 1..Len(tpls) : tpls[j].ns # ""}
        RECURSIVE Anns(_)
        Anns(j) ==
            IF j > Len(tpls) THEN << >>
            ELSE (IF j \in idx
                  THEN << [k |-> WicKey(j - 1, tpls[j].step.id),
                           v |-> WicStep(tpls[j].ns, FALSE, << >>)] >>
                  ELSE << >>) \o Anns(j + 1)
    IN Ast([j \in 1..Len(tpls) |-> tpls[j].step], inputs, Wic(Anns(1)))

\* The subworkflow files on the search path (read_ast_from_disk pre-loads them).
SubLibrary ==
    ("defl.wic" :> BuildAst(<<ProdL>>, << >>))
    @@ ("call.wic" :> BuildAst(<<ConsAlias>>, << >>))
    @@ ("ins.wic" :> BuildAst(<<ConsAlias, ConsJ>>, << >>))
    @@ ("loop.wic" :> BuildAst(<<ConsX>>, << >>))
    @@ ("bad.wic" :> BuildAst(<<Special>>, << >>))

SubTpl(key) == Tpl(Step(key, "", << >>, << >>, <<SubLibrary[key]>>), "")

StepTemplates ==
    ToolTemplates \cup {SubTpl(k) : k \in {"defl.wic", "call.wic", "ins.wic", "bad.wic"}}
LoopTemplates == {ConsX, SubTpl("loop.wic")}

SeqsUpTo(S, n) == UNION {[1..m -> S] : m \in 1..n}

\* a subworkflow whose only step is the subworkflow call.wic
Outer ==
    Tpl(Step("outer.wic", "", << >>, << >>, <<BuildAst(<<SubTpl("call.wic")>>, << >>)>>), "")
\* a subworkflow with a definition and its call in two subworkflows of its own
Both ==
    Tpl(Step("outer.wic", "", << >>, << >>,
             <<BuildAst(<<SubTpl("defl.wic"), SubTpl("call.wic")>>, << >>)>>), "")
\* a subworkflow whose only step has an inline literal, and one around it
Lit == Tpl(Step("lit.wic", "", << >>, << >>, <<BuildAst(<<ConsII>>, << >>)>>), "")
OuterLit ==
    Tpl(Step("outer.wic", "", << >>, << >>, <<BuildAst(<<Lit, ConsII>>, << >>)>>), "")
NestedAsts ==
    {BuildAst(t, DeclaredInputs) :
        t \in {<<ProdL, Outer>>, <<Outer>>, <<Both>>,
               <<Lit>>, <<Lit, Lit>>, <<ConsII, OuterLit>>}}

RootAsts ==
    {BuildAst(t, DeclaredInputs) : t \in SeqsUpTo(StepTemplates, MaxSteps)}
    \cup {BuildAst(t, DeclaredInputs) : t \in SeqsUpTo(LoopTemplates, MaxLoopSteps)}
    \cup NestedAsts

\* cli.parser flags read by the compiler.  The graph flags keep their defaults.
\* --inference_disable is tried with the other flags at their defaults.
ArgSets ==
    [allow_raw_cwl : BOOLEAN, insert_steps_automatically : BOOLEAN,
     inference_disable : {FALSE}, graph_label_stepname : {FALSE},
     graph_show_inputs : {FALSE}, partial_failure_enable : {FALSE}]
    \cup [allow_raw_cwl : {FALSE}, insert_steps_automatically : {FALSE},
          inference_disable : {TRUE}, graph_label_stepname : {FALSE},
          graph_show_inputs : {FALSE}, partial_failure_enable : {FALSE}]

----------------------------------------------------------------------------
(* Graph accumulators.  A GraphReps object holds the graphviz body, the      *)
(* networkx node and edge sets, and a reference to its GraphData object;     *)
(* GraphData.nodes is a list object of its own.                              *)

EmptyHeap == [next |-> 0, reps |-> << >>, gds |-> << >>, lists |-> << >>]

GvNode(name) == [t |-> "node", a |-> name, b |-> << >>]
GvEdge(a, b) == [t |-> "edge", a |-> a, b |-> b]
GvSub(name) == [t |-> "subgraph", a |-> name, b |-> << >>]

\* GraphReps(graphviz.Digraph(...), nx.DiGraph(), GraphData(name))
NewGraphReps(h, name) ==
    LET r == h.next
        g == h.next + 1
        l == h.next + 2
    IN [id |-> r,
        heap |-> [next |-> h.next + 3,
                  reps |-> h.reps @@ (r :> [body |-> << >>, nxn |-> {}, nxe |-> {}, gd |-> g]),
                  gds |-> h.gds @@ (g :> [name |-> name, nodes |-> l, edges |-> << >>,
                                          subgraphs |-> << >>]),
                  lists |-> h.lists @@ (l :> << >>)]]

\* copy.deepcopy(subgraphs_): every object reachable from the list is new
DeepCopyGraphs(h, ids) ==
    LET n == Len(ids)
        at(j) == h.next + 3 * (j - 1)
        of(x) == h.reps[ids[((x - h.next) \div 3) + 1]]
        R == {at(j) : j \in 1..n}
    IN [heap |-> [next |-> h.next + 3 * n,
                  reps |-> h.reps @@ [r \in R |-> [of(r) EXCEPT !.gd = r + 1]],
                  gds |-> h.gds @@ [g \in {r + 1 : r \in R} |-> [h.gds[of(g).gd] EXCEPT !.nodes = g + 1]],
                  lists |-> h.lists @@ [l \in {r + 2 : r \in R} |-> h.lists[h.gds[of(l).gd].nodes]]],
        ids |-> [j \in 1..n |-> at(j)]]

\* Objects created by a pass whose CompilerInfo was dropped are garbage.
Restrict(fn, m) == [x \in {y \in DOMAIN fn : y < m} |-> fn[x]]
Collect(h, m) ==
    [next |-> h.next, reps |-> Restrict(h.reps, m), gds |-> Restrict(h.gds, m),
     lists |-> Restrict(h.lists, m)]

\* graph_gv.node(name); graph_nx.add_node(name); graphdata.nodes.append(name)
\* where graphdata is whatever the local variable of that name refers to.
AddGraphNode(h, graph, graphdata, name) ==
    LET l == h.gds[graphdata].nodes
    IN [h EXCEPT !.reps[graph].body = Append(@, GvNode(name)),
                 !.reps[graph].nxn = @ \cup {name},
                 !.lists[l] = Append(@, name)]

\* utils_graphs.add_graph_edge(args, graph, nss_def, nss_call, label, color)
add_graph_edge(h, graph, nss_def, nss_call) ==
    LET g == h.reps[graph].gd
    IN [h EXCEPT !.reps[graph].body = Append(@, GvEdge(nss_def, nss_call)),
                 !.reps[graph].nxn = @ \cup {nss_def, nss_call},
                 !.reps[graph].nxe = @ \cup {<<nss_def, nss_call>>},
                 !.gds[g].edges = Append(@, <<nss_def, nss_call>>)]

RECURSIVE AddSiblings(_, _, _)
\* utils_graphs.add_subgraphs: the compiled children become subgraphs of graph
AddSiblings(h, graph, siblings) ==
    IF siblings = << >> THEN h
    ELSE LET sib == h.reps[Last(siblings)]
             g == h.reps[graph].gd
             h1 == [h EXCEPT !.reps[graph].body = Append(@, GvSub(h.gds[sib.gd].name)),
                             !.reps[graph].nxn = @ \cup sib.nxn,
                             !.reps[graph].nxe = @ \cup sib.nxe]
         IN AddSiblings(h1, graph, Front(siblings))

add_subgraphs(h, graph, siblings) ==
    LET g == h.reps[graph].gd
        h1 == AddSiblings(h, graph, siblings)
    IN [h1 EXCEPT !.gds[g].subgraphs =
            @ \o [j \in 1..Len(siblings) |-> h.reps[siblings[j]].gd]]

\* compile_workflow, lines 88-95: overwrite subgraphs_ element-wise
CommitGraphs(h, subgraphs_, subgraphs) ==
    LET J == 1..Len(subgraphs_)
        last(S) == CHOOSE j \in S : \A k \in S : k <= j
        src(j) == h.reps[subgraphs[j]]
        ends(r) == {e[1] : e \in r.nxe} \cup {e[2] : e \in r.nxe}
        forRep(x) == {j \in J : subgraphs_[j] = x}
        forGd(x) == {j \in J : h.reps[subgraphs_[j]].gd = x}
    IN [h EXCEPT !.reps = [x \in DOMAIN h.reps |->
                              IF forRep(x) = {} THEN h.reps[x]
                              ELSE LET r == src(last(forRep(x)))
                                   IN [h.reps[x] EXCEPT !.body = r.body,
                                                        !.nxn = r.nxn \cup ends(r),
                                                        !.nxe = r.nxe]],
                 !.gds = [x \in DOMAIN h.gds |->
                              IF forGd(x) = {} THEN h.gds[x]
                              ELSE LET sgd == h.gds[src(last(forGd(x))).gd]
                                   IN [h.gds[x] EXCEPT !.name = sgd.name,
                                                       !.nodes = sgd.nodes,
                                                       !.edges = sgd.edges,
                                                       !.subgraphs = sgd.subgraphs]]]

\* What an accumulator holds, by value.
GraphValue(h, id) ==
    LET r == h.reps[id]
        g == h.gds[r.gd]
    IN [body |-> r.body, nxn |-> r.nxn, nxe |-> r.nxe, name |-> g.name,
        nodes |-> h.lists[g.nodes], edges |-> g.edges]

----------------------------------------------------------------------------
(* Namespace utilities *)

RECURSIVE CommonPrefixLen(_, _)
CommonPrefixLen(a, b) ==
    IF a = << >> \/ b = << >> THEN 0
    ELSE IF Head(a) = Head(b) THEN 1 + CommonPrefixLen(Tail(a), Tail(b))
    ELSE 0

\* utils.partition_by_lowest_common_ancestor(nss1, nss2): (shared prefix, tail of nss1)
partition_by_lowest_common_ancestor(nss1, nss2) ==
    LET n == CommonPrefixLen(nss1, nss2)
    IN [inits |-> SubSeq(nss1, 1, n), tails |-> SubSeq(nss1, n + 1, Len(nss1))]

\* utils.get_input_mappings / utils.get_output_mapping
RECURSIVE get_input_mappings(_, _)
get_input_mappings(input_mapping, arg_keys) ==
    IF arg_keys = << >> THEN << >>
    ELSE (IF DHas(input_mapping, Head(arg_keys))
          THEN DGet(input_mapping, Head(arg_keys))
          ELSE <<Head(arg_keys)>>) \o get_input_mappings(input_mapping, Tail(arg_keys))

get_output_mapping(output_mapping, out_key) ==
    IF DHas(output_mapping, out_key) THEN DGet(output_mapping, out_key) ELSE out_key

----------------------------------------------------------------------------
(* compile_workflow_once: the locals of one rewriter pass *)

Range(s) == {s[j] : j \in 1..Len(s)}
EdgeSite(nss, var) == [nss |-> nss, var |-> var]
\* Variant, for comparison: the keys are merged as the subworkflow had them.
C24_Unprefixed(d, sn) == d

\* lines 292-295, 299-305: every key gets the step's name in front
Namespaced(d, sn) == [j \in 1..Len(d) |-> [k |-> <<sn>> \o d[j].k, v |-> d[j].v]]

\* utils.get_steps_keys(steps), utils.get_subkeys(steps_keys)
get_steps_keys(steps) == [j \in 1..Len(steps) |-> steps[j].id]
get_subkeys(steps_keys) == {k \in Range(steps_keys) : EndsWithWic(k)}

\* Variant, for comparison: the pass works on the argument object itself.
C23_SameObject(x) == [val |-> x, same |-> TRUE]

\* copy.deepcopy(x) (lines 142-146, 184-197): an equal value in an object of
\* its own; `same` says whether the result is the object that was passed in
deepcopy(x) == [val |-> x, same |-> FALSE]

\* lines 141-212: the copies and accumulators a pass starts from
OnceEnter(cw, h) ==
    [yaml_stem |-> PathStem(cw.step_key),
     shared |-> [yaml_tree |-> deepcopy(cw.yaml_tree).same,
                 input_mapping |-> deepcopy(cw.input_mapping).same,
                 output_mapping |-> deepcopy(cw.output_mapping).same,
                 explicit_edge_defs |-> deepcopy(cw.explicit_edge_defs).same,
                 explicit_edge_calls |-> deepcopy(cw.explicit_edge_calls).same],
     yaml_tree_orig |-> deepcopy(cw.yaml_tree).val,
     steps |-> cw.yaml_tree.steps,
     steps_keys |-> get_steps_keys(cw.yaml_tree.steps),
     wic_steps |-> cw.yaml_tree.wic.steps,
     inputs |-> cw.yaml_tree.inputs,
     inputs_workflow |-> << >>,
     inputs_file_workflow |-> << >>,
     input_mapping_copy |-> deepcopy(cw.input_mapping).val,
     output_mapping_copy |-> deepcopy(cw.output_mapping).val,
     outputs_workflow |-> << >>,
     vars_workflow_output_internal |-> << >>,
     explicit_edge_defs_copy |-> deepcopy(cw.explicit_edge_defs).val,
     explicit_edge_calls_copy |-> deepcopy(cw.explicit_edge_calls).val,
     explicit_edge_defs_copy2 |-> deepcopy(cw.explicit_edge_defs).val,
     explicit_edge_calls_copy2 |-> deepcopy(cw.explicit_edge_calls).val,
     sibling_subgraphs |-> << >>,
     rose_tree_list |-> << >>,
     graphdata |-> h.reps[Last(cw.subgraphs)].gd,
     tools_lst |-> << >>,
     names |-> << >>,
     tool_i |-> << >>,
     sn |-> Nm(""),
     sub |-> << >>,
     i |-> 0,
     pc |-> "step"]

CurKey(o) == o.steps_keys[o.i + 1]

\* wic_steps.get(f'({i+1}, {step_key})', {})
WicStepAt(o, i) ==
    IF DHas(o.wic_steps, WicKey(i, o.steps_keys[i + 1]))
    THEN DGet(o.wic_steps, WicKey(i, o.steps_keys[i + 1]))
    ELSE WicStep("", FALSE, << >>)

\* wic_step_i.get('wic', {}).get('namespace', 'global')
PluginNs(ws) == IF ws.namespace = "" THEN "global" ELSE ws.namespace

StepIdAt(o, i) == StepId(PathStem(o.steps_keys[i + 1]), PluginNs(WicStepAt(o, i)))

\* lines 215-222 (and 856-861)
StepNameOrKey(o, i, tls) ==
    LET step_key == o.steps_keys[i + 1]
    IN IF EndsWithWic(step_key) \/ StepIdAt(o, i) \in DOMAIN tls
       THEN step_name_str(o.yaml_stem, i, step_key)
       ELSE Nm(step_key)

\* lines 311-313
RunTagStepId(o) == StepId(PathStem(o.steps[o.i + 1].run), "global")

\* Variant, for comparison: the plugin namespace of the step is ignored.
C8_ByStemOnly(o, tls) ==
    LET hits == {sid \in DOMAIN tls : sid.stem = StepIdAt(o, o.i).stem}
    IN IF hits = {} THEN << >> ELSE <<tls[CHOOSE sid \in hits : TRUE]>>

\* lines 315-323: the registry entry of a step that is no subworkflow, if any
ResolvesTo(o, tls) ==
    IF StepIdAt(o, o.i) \in DOMAIN tls THEN <<tls[StepIdAt(o, o.i)]>>
    ELSE IF RunTagStepId(o) \in DOMAIN tls THEN <<tls[RunTagStepId(o)]>>
    ELSE << >>

NodeData(namespaces, name, yml, compiled, tool, yml_inputs, edefs, ecalls, graph, inputs_workflow) ==
    [namespaces |-> namespaces, name |-> name, yml |-> yml, compiled |-> compiled,
     tool |-> tool, yml_inputs |-> yml_inputs, explicit_edge_defs |-> edefs,
     explicit_edge_calls |-> ecalls, graph |-> graph, inputs_workflow |-> inputs_workflow]
RoseTree(data, sub_trees) == [data |-> data, sub_trees |-> sub_trees]
Compiled(class, inputs, outputs, steps) ==
    [class |-> class, inputs |-> inputs, outputs |-> outputs, steps |-> steps]

\* lines 324-331
ResolveTool(o, cw, tls) ==
    LET tool_i == ResolvesTo(o, tls)[1]
        sn == StepNameOrKey(o, o.i, tls)
        leaf == NodeData(<<sn>>, tool_i.run_stem, EmptyAst,
                         Compiled(tool_i.class, tool_i.inputs, tool_i.outputs, << >>),
                         <<tool_i>>, << >>, << >>, << >>, Last(cw.subgraphs), << >>)
    IN [o EXCEPT !.tool_i = <<tool_i>>, !.sn = sn,
                 !.rose_tree_list = Append(@, RoseTree(leaf, << >>)),
                 !.tools_lst = Append(@, tool_i),
                 !.names = Append(@, sn),
                 !.pc = "body"]

\* k not in input_mapping (the argument, not the running copy)
NotInherited(d, inherited) == SelectSeq(d, LAMBDA e : ~DHas(inherited, e.k))

\* lines 252-309 and 331: merge what the compiled subworkflow returned
SubReturn(o, cw) ==
    LET ci == o.sub[1]
        i == o.i
        step_key == CurKey(o)
        sub_node_data == ci.rose.data
        sub_env_data == ci.env
        sub_yml == o.steps[i + 1].subtree[1]
        ast_modified == ~(sub_yml = sub_node_data.yml)
        tool_i == Tool(PathStem(step_key), "Workflow",
                       sub_node_data.compiled.inputs, sub_node_data.compiled.outputs)
    IN [o EXCEPT
          !.rose_tree_list = Append(@, ci.rose),
          !.wic_steps = IF ast_modified
                        THEN DPut(@, WicKey(i, step_key),
                                  WicStep("", FALSE, <<sub_node_data.yml.wic>>))
                        ELSE @,
          !.steps[i + 1].subtree = << >>,
          !.sibling_subgraphs = Append(@, sub_node_data.graph),
          !.tool_i = <<tool_i>>,
          !.inputs_file_workflow =
              DUpdate(@, Namespaced(sub_env_data.inputs_file_workflow, o.sn)),
          !.input_mapping_copy =
              DUpdate(@, Namespaced(NotInherited(sub_env_data.input_mapping,
                                                 cw.input_mapping), o.sn)),
          !.output_mapping_copy =
              DUpdate(@, Namespaced(NotInherited(sub_env_data.output_mapping,
                                                 cw.output_mapping), o.sn)),
          !.vars_workflow_output_internal = @ \o sub_env_data.vars_workflow_output_internal,
          !.explicit_edge_defs_copy = DUpdate(@, sub_env_data.explicit_edge_defs),
          !.explicit_edge_calls_copy = DUpdate(@, sub_env_data.explicit_edge_calls),
          !.tools_lst = Append(@, tool_i),
          !.names = Append(@, o.sn),
          !.sub = << >>,
          !.pc = "body"]

----------------------------------------------------------------------------
(* compile_workflow_once: one step of the steps loop, after resolution.     *)
(* r = [o, h, exc, cands, printed]: the locals, the heap, the exception     *)
(* raised ("" if none), the insertion candidates that end the pass early    *)
(* ({} if none) and the warning printed.                                    *)

Going(r) == r.exc = "" /\ r.cands = {}
Raised(r, kind) == [r EXCEPT !.exc = kind]

\* lines 393-397
IsRequired(decl) ==
    ~ ( (decl.dflt.has /\ decl.dflt.truthy)
        \/ (~decl.type.list /\ EndsWithQ(Last(decl.type.names)))
        \/ (decl.type.list /\ "null" \in Range(decl.type.names)) )

\* lines 390-409; << >> stands for the unknown class
KnownClass(tool) == tool.class \in {"CommandLineTool", "Workflow"}
ArgsRequired(tool) ==
    IF tool.class = "CommandLineTool"
    THEN DKeys(SelectSeq(tool.inputs, LAMBDA e : IsRequired(e.v)))
    ELSE DKeys(tool.inputs)

RECURSIVE IdentityBindings(_, _)
\* lines 401-407: add keys, but do not overwrite existing vals
IdentityBindings(in, keys) ==
    IF keys = << >> THEN in
    ELSE IdentityBindings(IF DHas(in, Head(keys)) THEN in
                          ELSE DPut(in, Head(keys), Bind("raw", << >>, Head(keys))),
                          Tail(keys))

\* Variant, for comparison: no label counts as defined.
C6_NeverDefined(defs, edgedef) == FALSE

\* line 476: explicit_edge_defs_copy.get(edgedef)
AlreadyDefined(defs, edgedef) == DHas(defs, edgedef)

RECURSIVE OutLoop(_, _, _)
\* lines 463-483: record the anchored outputs of step i as edge definitions
OutLoop(r, cw, j) ==
    IF ~Going(r) \/ j > Len(r.o.steps[r.o.i + 1].out) THEN r
    ELSE LET o == r.o
             out_val == o.steps[o.i + 1].out[j]
             edgedef == out_val.anchor
             site == EdgeSite(cw.namespaces \o <<o.sn>>, out_val.k)
         IN IF edgedef = << >> THEN OutLoop(r, cw, j + 1)
            ELSE IF ~AlreadyDefined(o.explicit_edge_defs_copy, edgedef)
            THEN OutLoop([r EXCEPT
                            !.o.steps[o.i + 1].out[j].anchor = << >>,
                            !.o.explicit_edge_defs_copy = DPut(@, edgedef, site),
                            !.o.explicit_edge_calls_copy = DPut(@, edgedef, site)],
                         cw, j + 1)
            ELSE Raised(r, "MultipleDefinitions")

\* lines 378-483
BodyHead(o, cw, h) ==
    LET i == o.i
        tool_i == o.tool_i[1]
        step_key == CurKey(o)
        r0 == [o |-> o, h |-> h, exc |-> "", cands |-> {}, printed |-> << >>]
        args_required == ArgsRequired(tool_i)
        o1 == [o EXCEPT
                 !.steps[i + 1].in =
                     IF tool_i.class = "Workflow" THEN IdentityBindings(@, args_required)
                     ELSE @]
        step_node_name == cw.namespaces \o <<o.sn>>
        \* graph_inline_depth keeps its default, sys.maxsize
        h1 == IF tool_i.class # "Workflow" \/ step_key \notin get_subkeys(o.steps_keys)
              THEN AddGraphNode(h, Last(cw.subgraphs), o.graphdata, step_node_name)
              ELSE h
    IN IF ~KnownClass(tool_i) THEN Raised(r0, "UnknownClass")
       ELSE OutLoop([r0 EXCEPT !.o = o1, !.h = h1], cw, 1)

\* lines 526-538 and 727-735
Routes(cw, o, site, arg_key) ==
    LET nss_def == site.nss \o Front(site.var)
        nss_call == (cw.namespaces \o <<o.sn>>) \o Front(arg_key)
        d == partition_by_lowest_common_ancestor(nss_def, nss_call)
        c == partition_by_lowest_common_ancestor(nss_call, nss_def)
    IN [nss_def |-> nss_def, nss_call |-> nss_call, nss_def_inits |-> d.inits,
        nss_def_tails |-> d.tails, nss_call_inits |-> c.inits, nss_call_tails |-> c.tails]

\* nss_def_tails[0] + '/' + '___'.join(nss_def_tails[1:] + [var])
VarSlash(nss_def_tails, var) == Bind("source", <<Head(nss_def_tails)>>, Tail(nss_def_tails) \o var)

RECURSIVE AliasEdges(_, _, _, _, _, _)
\* lines 602-616
AliasEdges(h, cw, o, graph_init, nss_def, arg_keys) ==
    IF arg_keys = << >> THEN h
    ELSE LET arg_key_ == Head(arg_keys)
             here == cw.namespaces \o <<o.sn>>
             nss_call_embedded == Front(arg_key_)
             nss_call == IF IsPrefix(here, arg_key_) THEN nss_call_embedded
                         ELSE IF IsPrefix(<<o.sn>>, arg_key_)
                         THEN cw.namespaces \o nss_call_embedded
                         ELSE here \o nss_call_embedded
         IN AliasEdges(add_graph_edge(h, graph_init, nss_def, nss_call),
                       cw, o, graph_init, nss_def, Tail(arg_keys))

\* Variant, for comparison: the two paths are never compared.
C7_NoSelfCheck(nss_def, nss_call) == "CallTailsEmpty"

\* lines 567-574
CallTailsEmptyError(nss_def, nss_call) ==
    IF nss_def = nss_call THEN "SelfReference" ELSE "CallTailsEmpty"

\* Variant, for comparison: the edge goes to the graph of the workflow itself.
C15_OwnGraph(subgraphs, nss_def_inits) == Last(subgraphs)

\* line 599: graph_init = subgraphs[len(nss_def_inits)]
GraphInit(subgraphs, nss_def_inits) == subgraphs[Len(nss_def_inits) + 1]


\* Variant, for comparison: the testing flag is not consulted.
C28_TestingIgnored(is_root, testing) == is_root

\* line 513: `if is_root and not testing`
RaisesNoDefinition(is_root, testing) == is_root /\ ~testing

\* lines 510-616: a binding {'wic_alias': label}
BindAlias(r, cw, arg_key, label, in_dict) ==
    LET o == r.o
        i == o.i
        in_name == <<o.sn>> \o arg_key
        here == cw.namespaces \o <<o.sn>>
    IN IF ~DHas(o.explicit_edge_defs_copy, label)
       THEN IF RaisesNoDefinition(cw.is_root, cw.testing) THEN Raised(r, "NoDefinition")
            ELSE [r EXCEPT
                    !.o.inputs_workflow = DPut(@, in_name, in_dict),
                    !.o.steps[i + 1].in = DPut(@, arg_key, Bind("source", << >>, in_name)),
                    !.o.explicit_edge_calls_copy = DPut(@, in_name, EdgeSite(here, arg_key))]
       ELSE LET site == DGet(o.explicit_edge_defs_copy, label)
                rt == Routes(cw, o, site, arg_key)
                n == Len(rt.nss_call_tails)
                o1 == IF n = 1
                      THEN [o EXCEPT !.steps[i + 1].in =
                                DPut(@, arg_key, VarSlash(rt.nss_def_tails, site.var))]
                      ELSE [o EXCEPT
                              !.inputs_workflow = DPut(@, in_name, in_dict),
                              !.explicit_edge_calls_copy = DPut(@, in_name, site),
                              !.steps[i + 1].in = DPut(@, arg_key, Bind("source", << >>, in_name))]
                arg_keys == get_input_mappings(o.input_mapping_copy,
                                IF DHas(o.input_mapping_copy, in_name)
                                THEN <<in_name>> ELSE <<arg_key>>)
                out_key == get_output_mapping(o.output_mapping_copy, site.nss \o site.var)
                nss_def == IF IsPrefix(site.nss, out_key) THEN Front(out_key) ELSE rt.nss_def
                k == Len(rt.nss_def_inits)
            IN IF n = 0
               THEN Raised(r, CallTailsEmptyError(rt.nss_def, rt.nss_call))
               ELSE IF n = 1 /\ rt.nss_def_tails = << >> THEN Raised(r, "IndexError")
               ELSE IF k >= Len(cw.subgraphs) THEN Raised(r, "IndexError")
               ELSE [r EXCEPT !.o = o1,
                              !.h = AliasEdges(r.h, cw, o, GraphInit(cw.subgraphs, rt.nss_def_inits),
                                                nss_def, arg_keys)]

\* lines 617-634: a binding {'wic_inline_input': value}
BindInline(r, arg_key, value, in_dict) ==
    LET o == r.o
        in_name == <<o.sn>> \o arg_key
    IN [r EXCEPT
          !.o.inputs_workflow = DPut(@, in_name, in_dict),
          !.o.inputs_file_workflow = DPut(@, in_name, [dict |-> in_dict, value |-> value]),
          !.o.steps[o.i + 1].in = DPut(@, arg_key, Bind("source", << >>, in_name))]

\* the string a raw binding holds, as a dictionary key
RawToken(arg_val) == arg_val.s \o arg_val.v

\* Variant, for comparison: every token counts as a workflow input.
C9_AnyToken(o, arg_val) == TRUE

\* line 671: arg_var in yaml_tree.get('inputs', {})
NamesWorkflowInput(o, arg_val) == arg_val.s = << >> /\ DHas(o.inputs, arg_val.v)

\* lines 646-700: any other binding is left un-evaluated
BindRaw(r, a, arg_key, arg_val) ==
    LET o == r.o
        in_name == <<o.sn>> \o arg_key
        hashable == arg_val.t = "raw"
        arg_var == RawToken(arg_val)
    IN IF ~a.allow_raw_cwl /\ (~hashable \/ ~NamesWorkflowInput(o, arg_val))
       THEN [r EXCEPT !.exc = "SystemExit",
                      !.printed = <<[var |-> arg_val, file |-> o.yaml_stem]>>]
       ELSE IF ~hashable THEN r
       ELSE [r EXCEPT !.o.input_mapping_copy =
                IF DHas(@, arg_var) THEN DPut(@, arg_var, Append(DGet(@, arg_var), in_name))
                ELSE DPut(@, arg_var, <<in_name>>)]

\* lines 486-700: one iteration of the args_provided loop
BindProvided(r, cw, a, arg_key) ==
    LET o == r.o
        arg_val == DGet(o.steps[o.i + 1].in, arg_key)
        in_tool == o.tool_i[1].inputs
    IN IF ~DHas(in_tool, arg_key) THEN Raised(r, "KeyError")
       ELSE IF arg_val.t = "alias" THEN BindAlias(r, cw, arg_key, arg_val.v, DGet(in_tool, arg_key))
       ELSE IF arg_val.t = "ii" THEN BindInline(r, arg_key, arg_val.v, DGet(in_tool, arg_key))
       ELSE BindRaw(r, a, arg_key, arg_val)

RECURSIVE ArgsProvidedLoop(_, _, _, _)
ArgsProvidedLoop(r, cw, a, keys) ==
    IF ~Going(r) \/ keys = << >> THEN r
    ELSE ArgsProvidedLoop(BindProvided(r, cw, a, Head(keys)), cw, a, Tail(keys))

----------------------------------------------------------------------------
(* inference.perform_edge_inference, after its contract: search the outputs *)
(* of the previous steps (most recent first), then the declared inputs of   *)
(* the workflow, for a source of the wanted format; otherwise expose the    *)
(* parameter as a workflow input and propose the tools that produce it.     *)

Produces(tool, fmt) == \E j \in 1..Len(tool.outputs) : tool.outputs[j].v.format = fmt
FirstOutput(tool, fmt) ==
    tool.outputs[CHOOSE j \in 1..Len(tool.outputs) :
                    /\ tool.outputs[j].v.format = fmt
                    /\ \A m \in 1..(j - 1) : tool.outputs[m].v.format # fmt].k
Max(S) == CHOOSE x \in S : \A y \in S : y <= x
Min(S) == CHOOSE x \in S : \A y \in S : x <= y

perform_edge_inference(r, cw, a, tls, arg_key) ==
    LET o == r.o
        i == o.i
        in_dict == DGet(o.tool_i[1].inputs, arg_key)
        fmt == in_dict.format
        in_name == <<o.sn>> \o arg_key
        prev == {j \in 1..i : Produces(o.tools_lst[j], fmt)}
        decl == {j \in 1..Len(o.inputs) : o.inputs[j].v.format = fmt}
    IN IF prev # {}
       THEN LET j == Max(prev)
                out_key == FirstOutput(o.tools_lst[j], fmt)
            IN [r EXCEPT
                  !.o.steps[i + 1].in = DPut(@, arg_key, Bind("source", <<o.names[j]>>, out_key)),
                  !.o.vars_workflow_output_internal = Append(@, <<o.names[j]>> \o out_key),
                  !.h = add_graph_edge(@, Last(cw.subgraphs),
                                       cw.namespaces \o <<o.names[j]>>,
                                       cw.namespaces \o <<o.sn>>)]
       ELSE IF decl # {}
       THEN [r EXCEPT !.o.steps[i + 1].in =
                DPut(@, arg_key, Bind("source", << >>, o.inputs[Min(decl)].k))]
       ELSE [r EXCEPT
               !.o.inputs_workflow = DPut(@, in_name, in_dict),
               !.o.steps[i + 1].in = DPut(@, arg_key, Bind("source", << >>, in_name)),
               !.cands = IF a.insert_steps_automatically
                         THEN {sid \in DOMAIN tls : Produces(tls[sid], fmt)}
                         ELSE {}]

\* Variant, for comparison: the call site is never taken to be further up.
C22_NoMoreRecursion(stems, yaml_stem) == FALSE

\* line 739: yaml_stem in stems and stems.index(yaml_stem) > 0
MoreRecursion(stems, yaml_stem) ==
    /\ \E j \in 1..Len(stems) : stems[j] = yaml_stem
    /\ stems[1] # yaml_stem

\* Variant, for comparison: the parent leaves the bridged input as it is.
C14_NoBridge(r, cw, arg_key) == r

\* lines 718-755: the edge was given explicitly inside the subworkflow
SubArgProvided(r, cw, arg_key) ==
    LET o == r.o
        i == o.i
        in_name == <<o.sn>> \o arg_key
        site == DGet(o.explicit_edge_calls_copy, arg_key)
        rt == Routes(cw, o, site, arg_key)
        nss_call_tails_stems == [j \in 1..Len(rt.nss_call_tails) |->
                                    parse_step_name_stem(rt.nss_call_tails[j])]
        more_recursion == MoreRecursion(nss_call_tails_stems, o.yaml_stem)
    IN IF ~DHas(o.steps[i + 1].in, arg_key) THEN Raised(r, "KeyError")
       ELSE IF nss_call_tails_stems = << >> \/ more_recursion
       THEN [r EXCEPT
               !.o.inputs_workflow = DPut(@, in_name, DGet(o.tool_i[1].inputs, arg_key)),
               !.o.steps[i + 1].in = DPut(@, arg_key, Bind("source", << >>, in_name)),
               !.o.explicit_edge_calls_copy = DPut(@, in_name, site)]
       ELSE IF rt.nss_def_tails = << >> THEN Raised(r, "IndexError")
       ELSE [r EXCEPT !.o.steps[i + 1].in =
                DPut(@, arg_key, VarSlash(rt.nss_def_tails, site.var))]

\* lines 702-771: one iteration of the args_required loop
BindRequired(r, cw, a, tls, arg_key, args_provided, sub_args_provided) ==
    LET o == r.o
        i == o.i
        in_name == <<o.sn>> \o arg_key
    IN IF arg_key \in Range(args_provided) THEN r
       ELSE IF DHas(o.inputs_file_workflow, in_name)
       THEN [r EXCEPT
               !.o.inputs_workflow = DPut(@, in_name, DGet(o.tool_i[1].inputs, arg_key)),
               !.o.steps[i + 1].in = DPut(@, arg_key, Bind("raw", << >>, in_name))]
       ELSE IF arg_key \in sub_args_provided THEN SubArgProvided(r, cw, arg_key)
       ELSE IF a.inference_disable THEN r
       ELSE perform_edge_inference(r, cw, a, tls, arg_key)

RECURSIVE ArgsRequiredLoop(_, _, _, _, _, _, _)
\* the loop stops at the first parameter with insertion candidates (lines 773-792)
ArgsRequiredLoop(r, cw, a, tls, keys, args_provided, sub_args_provided) ==
    IF ~Going(r) \/ keys = << >> THEN r
    ELSE ArgsRequiredLoop(BindRequired(r, cw, a, tls, Head(keys), args_provided,
                                       sub_args_provided),
                          cw, a, tls, Tail(keys), args_provided, sub_args_provided)

\* lines 794-805
BodyTail(r) ==
    LET o == r.o
        out_tool == o.tool_i[1].outputs
    IN [r EXCEPT
          !.o.outputs_workflow = Append(@, out_tool),
          !.o.steps[o.i + 1].out = [j \in 1..Len(out_tool) |-> OutEntry(out_tool[j].k, << >>)],
          !.o.i = @ + 1,
          !.o.pc = "step"]

\* lines 378-815 for step i
StepBody(o, cw, h, a, tls) ==
    LET args_provided == DKeys(o.steps[o.i + 1].in)
        args_required == ArgsRequired(o.tool_i[1])
        \* line 418
        sub_args_provided == {k \in Range(args_required) : DHas(o.explicit_edge_calls_copy, k)}
        r1 == BodyHead(o, cw, h)
        r2 == ArgsProvidedLoop(r1, cw, a, args_provided)
        r3 == ArgsRequiredLoop(r2, cw, a, tls, args_required, args_provided,
                               sub_args_provided)
    IN IF Going(r3) THEN BodyTail(r3) ELSE r3

----------------------------------------------------------------------------
(* compile_workflow_once: the two ways a pass returns *)

CompilerInfo(rose, env) == [rose |-> rose, env |-> env]
EnvData(o) ==
    [input_mapping |-> o.input_mapping_copy,
     output_mapping |-> o.output_mapping_copy,
     inputs_file_workflow |-> o.inputs_file_workflow,
     vars_workflow_output_internal |-> o.vars_workflow_output_internal,
     explicit_edge_defs |-> o.explicit_edge_defs_copy,
     explicit_edge_calls |-> o.explicit_edge_calls_copy]

\* utils.reindex_wic_steps(wic_steps, index): keys at or after index move up by one
reindex_wic_steps(wic_steps, index) ==
    [j \in 1..Len(wic_steps) |->
        [k |-> IF wic_steps[j].k.n >= index
               THEN [wic_steps[j].k EXCEPT !.n = @ + 1] ELSE wic_steps[j].k,
         v |-> wic_steps[j].v]]

\* Variant, for comparison: list.insert(i + 1, x), behind the consumer.
C16_InsertBehind(s, i, x) == SubSeq(s, 1, i + 1) \o <<x>> \o SubSeq(s, i + 2, Len(s))

\* line 946: steps_mod.insert(i, x), i counted from 0
InsertAt(s, i, x) == SubSeq(s, 1, i) \o <<x>> \o SubSeq(s, i + 1, Len(s))

\* lines 931-967
insert_step_into_workflow(yaml_tree_orig, stepid, i) ==
    [yaml_tree_orig EXCEPT
        !.steps = InsertAt(@, i, Step(stepid.stem, "", << >>, << >>, << >>)),
        !.wic.steps = DPut(reindex_wic_steps(@, i + 1),
                           WicKey(i, stepid.stem), WicStep("", TRUE, << >>))]

\* lines 774-792: return the AST with the adapter inserted before step i
EarlyReturn(o, cw, insertion) ==
    CompilerInfo(
        RoseTree(NodeData(cw.namespaces, o.yaml_stem,
                          insert_step_into_workflow(o.yaml_tree_orig, insertion, o.i),
                          Compiled("Workflow", o.inputs, << >>, o.steps),
                          o.tool_i, << >>, o.explicit_edge_defs_copy2,
                          o.explicit_edge_calls_copy2, Last(cw.subgraphs),
                          o.inputs_workflow),
                 o.rose_tree_list),
        EnvData(o))

\* utils_cwl.get_workflow_outputs: every step output, under its namespaced name
RECURSIVE get_workflow_outputs(_, _)
get_workflow_outputs(names, outputs_workflow) ==
    IF names = << >> THEN << >>
    ELSE Namespaced(Head(outputs_workflow), Head(names))
         \o get_workflow_outputs(Tail(names), Tail(outputs_workflow))

\* lines 853-868: the steps under their unique names
RenamedSteps(o) ==
    [j \in 1..Len(o.steps) |->
        [id |-> o.names[j], run |-> o.tools_lst[j].run_stem,
         in |-> o.steps[j].in, out |-> o.steps[j].out]]

\* lines 818-928
NormalReturn(o, cw) ==
    LET inputs_combined == DUpdate(o.inputs, o.inputs_workflow)
        workflow_outputs == get_workflow_outputs(o.names, o.outputs_workflow)
    IN CompilerInfo(
           RoseTree(NodeData(cw.namespaces, o.yaml_stem, o.yaml_tree_orig,
                             Compiled("Workflow", inputs_combined, workflow_outputs,
                                      RenamedSteps(o)),
                             o.tool_i, o.inputs_file_workflow, o.explicit_edge_defs_copy2,
                             o.explicit_edge_calls_copy2, Last(cw.subgraphs),
                             o.inputs_workflow),
                    o.rose_tree_list),
           EnvData(o))

----------------------------------------------------------------------------
(* The state machine *)

\* One activation of compile_workflow (lines 51-58)
Activation(yaml_tree_ast, step_key, namespaces, subgraphs_, explicit_edge_defs, explicit_edge_calls, input_mapping, output_mapping, is_root, h) ==
    [cw |-> [step_key |-> step_key,
             yaml_tree_ast |-> yaml_tree_ast,
             yaml_tree |-> yaml_tree_ast,
             namespaces |-> namespaces,
             subgraphs_ |-> subgraphs_,
             subgraphs |-> << >>,
             explicit_edge_defs |-> explicit_edge_defs,
             explicit_edge_calls |-> explicit_edge_calls,
             input_mapping |-> input_mapping,
             output_mapping |-> output_mapping,
             is_root |-> is_root,
             testing |-> FALSE,
             ast_modified |-> TRUE,
             i |-> 0,
             compiler_info |-> << >>,
             mark |-> h.next,
             probe |-> FALSE,
             alone |-> << >>,
             pc |-> "while"],
     once |-> << >>]

\* Variants of the driver, for comparison: a loop that always runs twice, and
\* a comparison that takes every pass for convergence.
C3_AtLeastTwice(cw) == cw.i < 2
C2_NeverModified(yaml_tree, node_data) == FALSE

\* line 59
LoopCondition(cw) == cw.ast_modified /\ cw.i < max_iters

\* Variant, for comparison: the passes work on the caller's objects.
C4_SharedGraphs(h, subgraphs_) == [heap |-> h, ids |-> subgraphs_]

\* line 60: subgraphs = copy.deepcopy(subgraphs_)
PassGraphs(h, subgraphs_) == DeepCopyGraphs(h, subgraphs_)

\* line 66
AstModified(yaml_tree, node_data) == ~(yaml_tree = node_data.yml)

Top == stack[Len(stack)]
SetTop(f) == [stack EXCEPT ![Len(stack)] = f]
Running == main_pc = "compile" /\ stack # << >>

----------------------------------------------------------------------------
(* run_local_async.py: run_cwl_workflow and create_safe_env.               *)
(* Environment keys are strings, modelled as sequences of characters.     *)

MaxEnv == 2
MaxChunks == 2

s_PATH == <<"P", "A", "T", "H">>
s_LD == <<"L", "D">>
s_PYTHON == <<"P", "Y", "T", "H", "O", "N">>
s_SECRET == <<"S", "E", "C", "R", "E", "T">>
s_BASH == <<"B", "A", "S", "H">>
s_ENV == <<"E", "N", "V">>
s_HOME == <<"H", "O", "M", "E">>

\* line 20
forbidden == {s_PATH, s_LD \o <<"_">>, s_PYTHON, s_SECRET \o <<"_">>, s_BASH \o <<"_">> \o s_ENV}

\* str.startswith
startswith(key, prefix) == Len(prefix) <= Len(key) /\ SubSeq(key, 1, Len(prefix)) = prefix

\* Variant, for comparison: no key is refused.
C30_NothingProhibited(key) == FALSE

\* line 22: any(key.startswith(prefix) for prefix in forbidden)
Prohibited(key) == \E prefix \in forbidden : startswith(key, prefix)

\* lines 18-24: the exception raised, or the dict returned; os.environ is only read
create_safe_env(user_env, environ) ==
    IF \E j \in 1..Len(user_env) : Prohibited(user_env[j].k)
    THEN [raised |-> "ValueError", env |-> << >>]
    ELSE [raised |-> "", env |-> DUpdate(environ, user_env)]

\* The keys a caller may pass and the environment of the process
UserKeys ==
    {s_PATH, s_PATH \o <<"2">>, <<"X">> \o s_PATH,
     s_LD \o <<"_">> \o s_PATH, s_LD, s_PYTHON \o s_PATH,
     s_SECRET \o <<"_">> \o <<"K">>, s_SECRET, s_BASH \o <<"_">> \o s_ENV,
     s_HOME}
OsEnviron == <<[k |-> s_HOME, v |-> "os"], [k |-> s_PATH, v |-> "os"]>>
UserEnvs ==
    {ue \in UNION {[1..n -> [k : UserKeys, v : {"user"}]] : n \in 0..MaxEnv} :
        \A a, b \in 1..Len(ue) : a # b => ue[a].k # ue[b].k}
Runners == {"cwltool", "toil-cwl-runner", "cwl-runner"}
Contents(tag) == UNION {[1..n -> {tag}] : n \in 0..MaxChunks}
ExitCodes == {0, 1}

\* line 49
_supported_runners == {"cwltool", "toil-cwl-runner"}

\* Variant, for comparison: the exit code is not looked at.
C29_CopyForCwltool(cwl_runner, retval) == cwl_runner = "cwltool"

\* line 132: `cwl_runner == 'cwltool' and retval == 0` (retval None: << >>)
ShouldCopy(cwl_runner, retval) == cwl_runner = "cwltool" /\ retval = <<0>>

\* A stream_to_file coroutine: its position and the file it writes
Task(pc) == [pc |-> pc, data |-> << >>, pos |-> 0, log |-> << >>]

Call(cwl_runner, user_env) ==
    [pc |-> "check", cwl_runner |-> cwl_runner, user_env |-> user_env,
     environ |-> OsEnviron, exec_env |-> << >>, proc |-> << >>,
     out |-> Task("none"), err |-> Task("none"), waited |-> FALSE,
     retval |-> << >>, e |-> "", error_log |-> FALSE, copied |-> FALSE, raised |-> ""]
NotCalled == [Call("", << >>) EXCEPT !.pc = "idle"]

compile_vars == <<args, tools, root, stack, heap, rootgraph, main_pc, exc, result, error_file, exit_code, stdout>>

\* lines 51-63
Run_CheckRunner ==
    /\ cwl_run.pc = "check"
    /\ cwl_run' = IF cwl_run.cwl_runner \notin _supported_runners
              THEN [cwl_run EXCEPT !.pc = "raised", !.raised = "ValueError"]
              ELSE [cwl_run EXCEPT !.pc = "env"]
    /\ UNCHANGED compile_vars

\* lines 65-67 and 117
Run_CreateEnv ==
    /\ cwl_run.pc = "env"
    /\ LET r == create_safe_env(cwl_run.user_env, cwl_run.environ)
       IN cwl_run' = IF r.raised # ""
                 THEN [cwl_run EXCEPT !.pc = "except", !.e = r.raised]
                 ELSE [cwl_run EXCEPT !.pc = "mkdir", !.exec_env = <<r.env>>]
    /\ UNCHANGED compile_vars

\* lines 70-74: log_dir.mkdir, which may fail
Run_Mkdir ==
    /\ cwl_run.pc = "mkdir"
    /\ \E ok \in BOOLEAN :
          cwl_run' = IF ok THEN [cwl_run EXCEPT !.pc = "spawn"]
                 ELSE [cwl_run EXCEPT !.pc = "except", !.e = "OSError"]
    /\ UNCHANGED compile_vars

\* lines 76-82: the runner may not be installed; otherwise the subprocess
\* starts, with what it is going to write and its exit code
Run_Spawn ==
    /\ cwl_run.pc = "spawn"
    /\ \/ cwl_run' = [cwl_run EXCEPT !.pc = "except", !.e = "FileNotFoundError"]
       \/ \E o \in Contents("out"), e \in Contents("err"), code \in ExitCodes :
             cwl_run' = [cwl_run EXCEPT !.pc = "gather",
                                !.proc = <<[env |-> cwl_run.exec_env[1], stdout |-> o, stderr |-> e, returncode |-> code]>>,
                                !.out = Task("open"),
                                !.err = Task("open")]
    /\ UNCHANGED compile_vars

\* lines 84-91, one coroutine step: open the file, read a chunk, write it
stream_to_file(task, stream) ==
    CASE task.pc = "open" -> {[task EXCEPT !.pc = "read"], [task EXCEPT !.pc = "failed"]}
      [] task.pc = "read" ->
            IF task.pos < Len(stream)
            THEN {[task EXCEPT !.pc = "write", !.data = <<stream[task.pos + 1]>>, !.pos = @ + 1]}
            ELSE {[task EXCEPT !.pc = "done"]}
      [] task.pc = "write" -> {[task EXCEPT !.pc = "read", !.data = << >>, !.log = Append(@, task.data[1])]}
      [] OTHER -> {}

\* lines 93-95: the two coroutines run interleaved
Run_StreamStdout ==
    /\ cwl_run.proc # << >>
    /\ \E t \in stream_to_file(cwl_run.out, cwl_run.proc[1].stdout) : cwl_run' = [cwl_run EXCEPT !.out = t]
    /\ UNCHANGED compile_vars

Run_StreamStderr ==
    /\ cwl_run.proc # << >>
    /\ \E t \in stream_to_file(cwl_run.err, cwl_run.proc[1].stderr) : cwl_run' = [cwl_run EXCEPT !.err = t]
    /\ UNCHANGED compile_vars

\* lines 93-96: gather returns when both are done, or raises the first
\* exception and leaves the other coroutine running
Run_Gather ==
    /\ cwl_run.pc = "gather"
    /\ \/ /\ cwl_run.out.pc = "done" /\ cwl_run.err.pc = "done"
          /\ cwl_run' = [cwl_run EXCEPT !.pc = "wait"]
       \/ /\ cwl_run.out.pc = "failed" \/ cwl_run.err.pc = "failed"
          /\ cwl_run' = [cwl_run EXCEPT !.pc = "except", !.e = "OSError"]
    /\ UNCHANGED compile_vars

\* lines 98-115: the report for a non-zero exit code only prints
Run_Wait ==
    /\ cwl_run.pc = "wait"
    /\ cwl_run' = [cwl_run EXCEPT !.pc = "after", !.waited = TRUE, !.retval = <<cwl_run.proc[1].returncode>>]
    /\ UNCHANGED compile_vars

\* lines 117-129
Run_Except ==
    /\ cwl_run.pc = "except"
    /\ cwl_run' = [cwl_run EXCEPT !.pc = "after", !.error_log = TRUE, !.retval = << >>]
    /\ UNCHANGED compile_vars

\* lines 131-133
Run_CopyOutputFiles ==
    /\ cwl_run.pc = "after"
    /\ cwl_run' = [cwl_run EXCEPT !.pc = "return", !.copied = ShouldCopy(cwl_run.cwl_runner, cwl_run.retval)]
    /\ UNCHANGED compile_vars

\* line 135
Run_Return ==
    /\ cwl_run.pc = "return"
    /\ cwl_run' = [cwl_run EXCEPT !.pc = "returned"]
    /\ UNCHANGED compile_vars

InitRun ==
    /\ args = CHOOSE a \in ArgSets : TRUE
    /\ tools = Registry
    /\ root = CHOOSE t \in RootAsts : TRUE
    /\ stack = << >>
    /\ heap = EmptyHeap
    /\ rootgraph = -1
    /\ main_pc = "start"
    /\ exc = ""
    /\ result = << >>
    /\ error_file = FALSE
    /\ exit_code = -1
    /\ stdout = << >>
    /\ \E cwl_runner \in Runners, user_env \in UserEnvs : cwl_run = Call(cwl_runner, user_env)

NextRun ==
    \/ Run_CheckRunner
    \/ Run_CreateEnv
    \/ Run_Mkdir
    \/ Run_Spawn
    \/ Run_StreamStdout
    \/ Run_StreamStderr
    \/ Run_Gather
    \/ Run_Wait
    \/ Run_Except
    \/ Run_CopyOutputFiles
    \/ Run_Return

\* run_cwl_workflow called once, with any runner and any user_env
SpecRun == InitRun /\ [][NextRun]_vars

----------------------------------------------------------------------------

Init ==
    /\ args \in ArgSets
    /\ tools = Registry
    /\ root \in RootAsts
    /\ stack = << >>
    /\ heap = EmptyHeap
    /\ rootgraph = -1
    /\ main_pc = "start"
    /\ exc = ""
    /\ result = << >>
    /\ error_file = FALSE
    /\ exit_code = -1
    /\ stdout = << >>
    /\ cwl_run = NotCalled

\* main.py lines 138-149: the root accumulator and the call
MainCall ==
    /\ main_pc = "start"
    /\ LET g == NewGraphReps(heap, "root.wic")
       IN /\ rootgraph' = g.id
          /\ heap' = g.heap
          /\ stack' = <<Activation(root, "root.wic", << >>, <<g.id>>, << >>, << >>,
                                   << >>, << >>, TRUE, g.heap)>>
    /\ main_pc' = "compile"
    /\ UNCHANGED <<args, tools, root, exc, result, error_file, exit_code, cwl_run, stdout>>

\* lines 60-64: a pass on a deep copy of the accumulators
StartPass(probe) ==
    LET cw == Top.cw
        live == [Collect(heap, cw.mark) EXCEPT !.next = cw.mark]
        c == PassGraphs(live, cw.subgraphs_)
        cw1 == [cw EXCEPT !.subgraphs = c.ids, !.compiler_info = << >>,
                          !.probe = probe, !.pc = "once"]
    IN /\ heap' = c.heap
       /\ stack' = SetTop([cw |-> cw1, once |-> <<OnceEnter(cw1, c.heap)>>])
       /\ UNCHANGED <<args, tools, root, rootgraph, main_pc, exc,
                      result, error_file, exit_code, cwl_run, stdout>>

\* lines 59-64: the loop condition holds
CW_StartPass ==
    /\ Running /\ Top.cw.pc = "while"
    /\ LoopCondition(Top.cw)
    /\ StartPass(Top.cw.probe)

\* line 59: the loop condition fails
CW_ExitLoop ==
    /\ Running /\ Top.cw.pc = "while"
    /\ ~LoopCondition(Top.cw)
    /\ stack' = SetTop([Top EXCEPT !.cw.pc = "commit"])
    /\ UNCHANGED <<args, tools, root, heap, rootgraph, main_pc,
                   exc, result, error_file, exit_code, cwl_run, stdout>>

\* lines 65-72
CW_AfterPass ==
    /\ Running /\ Top.cw.pc = "after"
    /\ LET cw == Top.cw
           node_data == cw.compiler_info[1].rose.data
           ast_modified == AstModified(cw.yaml_tree, node_data)
       IN stack' = SetTop([Top EXCEPT
                              !.cw.ast_modified = ast_modified,
                              !.cw.yaml_tree = IF ast_modified THEN node_data.yml ELSE @,
                              !.cw.i = @ + 1,
                              !.cw.pc = "while"])
    /\ UNCHANGED <<args, tools, root, heap, rootgraph, main_pc,
                   exc, result, error_file, exit_code, cwl_run, stdout>>

\* An exception (or SystemExit) unwinds every activation up to main()
Unwind(kind, h, printed) ==
    /\ exc' = kind
    /\ stack' = << >>
    /\ heap' = h
    /\ stdout' = printed
    /\ main_pc' = IF kind = "SystemExit" THEN "exit" ELSE "except"
    /\ UNCHANGED <<args, tools, root, rootgraph, result, error_file, exit_code, cwl_run>>

\* compile_workflow returns compiler_info to its caller
Return(compiler_info, h) ==
    /\ heap' = h
    /\ IF Len(stack) = 1
       THEN /\ result' = <<compiler_info>>
            /\ stack' = << >>
            /\ main_pc' = "returned"
            /\ UNCHANGED <<args, tools, root, rootgraph, exc,
                           error_file, exit_code, cwl_run, stdout>>
       ELSE LET parent == stack[Len(stack) - 1]
                o == [parent.once[1] EXCEPT !.sub = <<compiler_info>>]
            IN /\ stack' = Append(SubSeq(stack, 1, Len(stack) - 2),
                                  [parent EXCEPT !.once = <<SubReturn(o, parent.cw)>>])
               /\ UNCHANGED <<args, tools, root, rootgraph, main_pc, exc,
                              result, error_file, exit_code, cwl_run, stdout>>

\* line 88: `for i, subgraph_ in enumerate(subgraphs_)` rebinds the pass counter i
AfterCommitLoop(i, subgraphs_) == IF subgraphs_ = << >> THEN i ELSE Len(subgraphs_) - 1

\* lines 88-101: commit the last pass element-wise, then raise or return
CW_Return ==
    /\ Running /\ Top.cw.pc = "commit"
    /\ LET cw == Top.cw
           h == CommitGraphs(heap, cw.subgraphs_, cw.subgraphs)
           i == AfterCommitLoop(cw.i, cw.subgraphs_)
       IN IF i = max_iters
          THEN Unwind("MaxIterations", h, << >>)
          ELSE Return(cw.compiler_info[1], h)

\* compile_workflow_once applied once more to the AST a converged driver is
\* about to return, with the arguments of the driver (as the regression tests
\* re-run the rewriter)
CW_Probe ==
    /\ Running /\ Top.cw.pc = "commit"
    /\ ~Top.cw.ast_modified /\ ~Top.cw.probe
    /\ StartPass(TRUE)

InPass == Running /\ Top.cw.pc = "once"
Once == Top.once[1]
AtStep == InPass /\ Once.pc = "step" /\ Once.i < Len(Once.steps)
IsSubworkflow(o) == CurKey(o) \in get_subkeys(o.steps_keys)

\* lines 214-250: step i is a subworkflow; compile it before anything else
Once_CallSub ==
    /\ AtStep /\ IsSubworkflow(Once)
    /\ LET o == Once
           cw == Top.cw
           step_key == CurKey(o)
           sn == StepNameOrKey(o, o.i, tools)
           g == NewGraphReps(heap, step_key)
           o1 == [o EXCEPT !.sn = sn,
                           !.graphdata = g.heap.reps[g.id].gd,
                           !.pc = "call"]
       IN /\ heap' = g.heap
          /\ stack' = Append(SetTop([Top EXCEPT !.once = <<o1>>]),
                             Activation(o.steps[o.i + 1].subtree[1], step_key,
                                        cw.namespaces \o <<sn>>,
                                        Append(cw.subgraphs, g.id),
                                        o.explicit_edge_defs_copy,
                                        o.explicit_edge_calls_copy,
                                        o.input_mapping_copy, o.output_mapping_copy,
                                        FALSE, g.heap))
    /\ UNCHANGED <<args, tools, root, rootgraph, main_pc, exc,
                   result, error_file, exit_code, cwl_run, stdout>>

\* lines 310-331: step i is found in the registry
Once_ResolveTool ==
    /\ AtStep /\ ~IsSubworkflow(Once)
    /\ ResolvesTo(Once, tools) # << >>
    /\ stack' = SetTop([Top EXCEPT !.once = <<ResolveTool(Once, Top.cw, tools)>>])
    /\ UNCHANGED <<args, tools, root, heap, rootgraph, main_pc,
                   exc, result, error_file, exit_code, cwl_run, stdout>>

\* lines 321-323
Once_UnknownStep ==
    /\ AtStep /\ ~IsSubworkflow(Once)
    /\ ResolvesTo(Once, tools) = << >>
    /\ Unwind("UnknownStep", heap, << >>)

AtBody == InPass /\ Once.pc = "body"
Body == StepBody(Once, Top.cw, heap, args, tools)

\* lines 378-815: step i gets its bindings
Once_StepBody ==
    /\ AtBody /\ Going(Body)
    /\ stack' = SetTop([Top EXCEPT !.once = <<Body.o>>])
    /\ heap' = Body.h
    /\ UNCHANGED <<args, tools, root, rootgraph, main_pc, exc,
                   result, error_file, exit_code, cwl_run, stdout>>

\* the raise statements and the sys.exit of lines 409-682
Once_StepRaise ==
    /\ AtBody /\ Body.exc # ""
    /\ Unwind(Body.exc, Body.h, Body.printed)

\* The driver's activation when a pass returns compiler_info: the argument
\* objects hold what the pass left in them, which is what was passed in for
\* every object the pass copied before writing to it.
PassReturns(cw, o, compiler_info) ==
    [cw EXCEPT
        !.yaml_tree = IF o.shared.yaml_tree THEN compiler_info.rose.data.yml ELSE @,
        !.input_mapping = IF o.shared.input_mapping THEN o.input_mapping_copy ELSE @,
        !.output_mapping = IF o.shared.output_mapping THEN o.output_mapping_copy ELSE @,
        !.explicit_edge_defs =
            IF o.shared.explicit_edge_defs THEN o.explicit_edge_defs_copy ELSE @,
        !.explicit_edge_calls =
            IF o.shared.explicit_edge_calls THEN o.explicit_edge_calls_copy ELSE @,
        !.compiler_info = <<compiler_info>>,
        !.pc = "after"]

\* lines 773-792: insertions = list(set(insertions)); insertion = insertions[0]
Once_StepInsert ==
    /\ AtBody /\ Body.exc = "" /\ Body.cands # {}
    /\ \E insertion \in Body.cands :
          stack' = SetTop([cw |-> PassReturns(Top.cw, Body.o,
                                              EarlyReturn(Body.o, Top.cw, insertion)),
                           once |-> << >>])
    /\ heap' = Body.h
    /\ UNCHANGED <<args, tools, root, rootgraph, main_pc, exc,
                   result, error_file, exit_code, cwl_run, stdout>>

\* lines 818-928: the steps loop is over
Once_Finish ==
    /\ InPass /\ Once.pc = "step" /\ Once.i = Len(Once.steps)
    /\ heap' = add_subgraphs(heap, Last(Top.cw.subgraphs), Once.sibling_subgraphs)
    /\ stack' = SetTop([cw |-> PassReturns(Top.cw, Once, NormalReturn(Once, Top.cw)),
                        once |-> << >>])
    /\ UNCHANGED <<args, tools, root, rootgraph, main_pc, exc,
                   result, error_file, exit_code, cwl_run, stdout>>

\* main.py lines 150-165
MainExcept ==
    /\ main_pc = "except"
    /\ error_file' = TRUE
    /\ exit_code' = 1
    /\ main_pc' = "done"
    /\ UNCHANGED <<args, tools, root, stack, heap, rootgraph, exc, result, stdout, cwl_run>>

\* SystemExit is no Exception: it passes the except clause of main()
MainSystemExit ==
    /\ main_pc = "exit"
    /\ exit_code' = 1
    /\ main_pc' = "done"
    /\ UNCHANGED <<args, tools, root, stack, heap, rootgraph,
                   exc, result, error_file, stdout, cwl_run>>

\* main.py lines 166-207
MainFinish ==
    /\ main_pc = "returned"
    /\ exit_code' = 0
    /\ main_pc' = "done"
    /\ UNCHANGED <<args, tools, root, stack, heap, rootgraph,
                   exc, result, error_file, stdout, cwl_run>>

Next ==
    \/ MainCall
    \/ CW_StartPass
    \/ CW_ExitLoop
    \/ CW_AfterPass
    \/ CW_Return
    \/ Once_CallSub
    \/ Once_ResolveTool
    \/ Once_UnknownStep
    \/ Once_StepBody
    \/ Once_StepRaise
    \/ Once_StepInsert
    \/ Once_Finish
    \/ MainExcept
    \/ MainSystemExit
    \/ MainFinish

Spec == Init /\ [][Next]_vars

\* The program together with the re-run of the rewriter at convergence
NextProbe == Next \/ CW_Probe
SpecProbe == Init /\ [][NextProbe]_vars

\* The subworkflow of step j of a compiled root, compiled again as a root of
\* its own: is_root true, no enclosing namespace, a graph of its own, and the
\* explicit-edge environments its embedded compilation was given (the ones
\* its node stores), with testing on, so that an alias without definition
\* becomes a workflow input instead of an error (lines 513-521).  The node of
\* the embedded compilation is kept in the activation for comparison.
CW_Standalone ==
    /\ main_pc = "returned" /\ result # << >>
    /\ result[1].rose.data.name = "root"
    /\ \E j \in DOMAIN result[1].rose.data.yml.steps \cap DOMAIN result[1].rose.sub_trees :
          LET st == result[1].rose.data.yml.steps[j]
              embedded == result[1].rose.sub_trees[j].data
              g == NewGraphReps(heap, st.id)
              act == Activation(st.subtree[1], st.id, << >>, <<g.id>>,
                                embedded.explicit_edge_defs, embedded.explicit_edge_calls,
                                << >>, << >>, TRUE, g.heap)
          IN /\ st.subtree # << >>
             /\ heap' = g.heap
             /\ stack' = <<[act EXCEPT !.cw.testing = TRUE, !.cw.alone = <<embedded>>]>>
    /\ main_pc' = "compile"
    /\ UNCHANGED <<args, tools, root, rootgraph, exc, result, error_file, exit_code, cwl_run, stdout>>

\* The program followed by standalone compilations of its subworkflows
\* n fresh accumulators, as n nested compile_workflow calls have appended them
NewGraphs(h, n) ==
    LET at(j) == h.next + 3 * (j - 1)
        R == {at(j) : j \in 1..n}
    IN [heap |-> [next |-> h.next + 3 * n,
                  reps |-> h.reps @@ [r \in R |-> [body |-> << >>, nxn |-> {}, nxe |-> {}, gd |-> r + 1]],
                  gds |-> h.gds @@ [g \in {r + 1 : r \in R} |-> [name |-> "outer.wic", nodes |-> g + 1, edges |-> << >>, subgraphs |-> << >>]],
                  lists |-> h.lists @@ [l \in {r + 2 : r \in R} |-> << >>]],
        ids |-> [j \in 1..n |-> at(j)]]
Depths == {2, max_iters}

\* compile_workflow called for a subworkflow that sits depth levels below the
\* root, with the depth + 1 accumulators of its ancestors and its own (as
\* line 246 passes subgraphs + [subgraph] at every level)
CW_Nested ==
    /\ main_pc = "returned" /\ result # << >> /\ result[1].rose.data.name = "root"
    /\ root = BuildAst(<<ProdL>>, DeclaredInputs)
    /\ \E depth \in Depths :
          LET gs == NewGraphs(heap, depth + 1)
              namespaces == [j \in 1..depth |-> step_name_str("outer", j - 1, "outer.wic")]
          IN /\ heap' = gs.heap
             /\ stack' = <<Activation(BuildAst(<<ConsII>>, << >>), "lit.wic", namespaces,
                                      gs.ids, << >>, << >>, << >>, << >>, FALSE, gs.heap)>>
    /\ main_pc' = "compile"
    /\ UNCHANGED <<args, tools, root, rootgraph, exc, result, error_file, exit_code, cwl_run, stdout>>
NextNested == Next \/ CW_Nested
SpecNested == Init /\ [][NextNested]_vars

NextAlone == Next \/ CW_Standalone
SpecAlone == Init /\ [][NextAlone]_vars

----------------------------------------------------------------------------
(* Properties *)

Frames == {stack[k] : k \in 1..Len(stack)}
Returning(f) == f.cw.pc = "commit"
Converged(f) == Returning(f) /\ ~f.cw.ast_modified
\* steps the driver has inserted into its workflow so far
Inserted(f) == Len(f.cw.yaml_tree.steps) - Len(f.cw.yaml_tree_ast.steps)
AtCeiling == Running /\ Returning(Top) /\ Top.cw.i = max_iters /\ Top.cw.ast_modified

\* C1: a driver that has made max_iters passes, the last of which still
\* changed the AST, raises the maximum-iterations error to its caller and
\* returns no CompilerInfo.
C1_CeilingRaises ==
    [][AtCeiling => (exc' = "MaxIterations" /\ stack' = << >> /\ result' = << >>)]_vars

\* C2: when a driver has converged, (a) the AST of the node it returns is the
\* input of its last pass, which that pass returned unchanged, and (b) one
\* more pass over that AST with the same arguments returns it unchanged
\* again.
C2_FixedPoint ==
    \A f \in Frames :
        /\ Converged(f) =>
              f.cw.compiler_info[1].rose.data.yml = f.cw.yaml_tree
        /\ (f.cw.probe /\ f.cw.pc \in {"while", "commit"}) =>
              /\ ~f.cw.ast_modified
              /\ f.cw.compiler_info[1].rose.data.yml = f.cw.yaml_tree
C2_Witness ==
    \E f \in Frames : f.cw.probe /\ Converged(f) /\ Inserted(f) = 2 /\ f.cw.i = 4

NoDup(q) == \A a, b \in 1..Len(q) : a # b => q[a] # q[b]
NodesAndEdges(body) == SelectSeq(body, LAMBDA e : e.t # "subgraph")
NoDuplicates(g) == NoDup(NodesAndEdges(g.body)) /\ NoDup(g.nodes) /\ NoDup(g.edges)
Extends(old, new) ==
    /\ IsPrefix(old.body, new.body) /\ IsPrefix(old.nodes, new.nodes)
    /\ IsPrefix(old.edges, new.edges)
    /\ old.nxn \subseteq new.nxn /\ old.nxe \subseteq new.nxe

\* the names the steps of a workflow get (lines 215-222), at every level
RECURSIVE UniqueStepNames(_, _)
UniqueStepNames(ast, stem) ==
    /\ NoDup([j \in 1..Len(ast.steps) |->
                LET o == [steps_keys |-> get_steps_keys(ast.steps),
                          wic_steps |-> ast.wic.steps, yaml_stem |-> stem]
                IN StepNameOrKey(o, j - 1, Registry)])
    /\ \A j \in 1..Len(ast.steps) :
          ast.steps[j].subtree # << >> =>
              UniqueStepNames(ast.steps[j].subtree[1], PathStem(ast.steps[j].id))

C5_InOrder ==
    \A k \in 1..(Len(stack) - 1) :
        LET o == stack[k].once[1]
            cw == stack[k].cw
        IN /\ o.pc = "call"
           /\ Len(o.names) = o.i
           /\ stack[k + 1].cw.namespaces
                  = cw.namespaces \o <<step_name_str(o.yaml_stem, o.i, CurKey(o))>>
           /\ stack[k + 1].cw.yaml_tree_ast = cw.yaml_tree.steps[o.i + 1].subtree[1]
           /\ \A j \in (o.i + 1)..Len(o.steps) : o.steps[j] = cw.yaml_tree.steps[j]
\* A subworkflow call returns to its parent at its fixed point.
C5_ChildAtFixedPoint ==
    (Running /\ Len(stack) >= 2 /\ Len(stack') = Len(stack) - 1 /\ exc' = "")
        => ~Top.cw.ast_modified
\* C5: steps are processed in list order, and the call for a subworkflow step
\* i has returned, at its own fixed point, before the parent rewrites a
\* binding of step i or starts a later step.
C5_PreOrder == [][C5_InOrder /\ C5_InOrder' /\ C5_ChildAtFixedPoint]_vars

RECURSIVE AnchorsOf(_)
\* the labels anchored in a workflow tree, one entry per definition site
AnchorsOf(ast) ==
    LET RECURSIVE OfSteps(_)
        OfSteps(steps) ==
            IF steps = << >> THEN << >>
            ELSE LET st == Head(steps)
                     own == [j \in 1..Len(SelectSeq(st.out, LAMBDA e : e.anchor # << >>)) |->
                                SelectSeq(st.out, LAMBDA e : e.anchor # << >>)[j].anchor]
                     sub == IF st.subtree = << >> THEN << >> ELSE AnchorsOf(st.subtree[1])
                 IN own \o sub \o OfSteps(Tail(steps))
    IN OfSteps(ast.steps)
DefinedTwice(ast) == ~NoDup(AnchorsOf(ast))
\* the step about to get its bindings anchors a label that is already recorded
SecondSite(o) ==
    /\ KnownClass(o.tool_i[1])
    /\ \E j \in 1..Len(o.steps[o.i + 1].out) :
          /\ o.steps[o.i + 1].out[j].anchor # << >>
          /\ DHas(o.explicit_edge_defs_copy, o.steps[o.i + 1].out[j].anchor)

\* C6: processing a second definition site of a label raises the
\* multiple-definitions error, wherever in the tree the two sites are; no
\* tree with a label defined twice ever yields a result; and the value
\* recorded for a label never changes while a pass runs.
C6_DuplicateDefinition ==
    [][/\ (AtBody /\ SecondSite(Once)) =>
             (exc' = "MultipleDefinitions" /\ stack' = << >> /\ result' = << >>)
       /\ DefinedTwice(root) => result' = << >>
       /\ \A k \in 1..Len(stack) :
             (k <= Len(stack') /\ stack[k].once # << >> /\ stack'[k].once # << >>) =>
                LET old == stack[k].once[1].explicit_edge_defs_copy
                    new == stack'[k].once[1].explicit_edge_defs_copy
                IN \A label \in DKeySet(old) :
                      DHas(new, label) /\ DGet(new, label) = DGet(old, label)]_vars
\* the second site is inside a subworkflow, the first in its parent
C6_Witness == AtBody /\ SecondSite(Once) /\ Len(stack) = 2

\* the step about to get its bindings calls, as its first binding, a label
\* that it anchors on one of its own outputs
SelfAlias(o) ==
    LET st == o.steps[o.i + 1]
    IN /\ KnownClass(o.tool_i[1])
       /\ st.in # << >>
       /\ st.in[1].v.t = "alias"
       /\ DHas(o.tool_i[1].inputs, st.in[1].k)
       /\ \E j \in 1..Len(st.out) : st.out[j].anchor = st.in[1].v.v
       /\ \A j \in 1..Len(st.out) :
             st.out[j].anchor # << >> => ~DHas(o.explicit_edge_defs_copy, st.out[j].anchor)
       /\ NoDup([j \in 1..Len(st.out) |-> st.out[j]])

\* C7: a step that calls on its own input a label it defines on its own
\* output raises the self-reference error; nothing is returned.
C7_SelfReference ==
    [][(AtBody /\ SelfAlias(Once)) =>
          (exc' = "SelfReference" /\ stack' = << >> /\ result' = << >>
           /\ main_pc' = "except")]_vars
C7_Witness == AtBody /\ SelfAlias(Once) /\ Once.i = 1

Unregistered(o) == StepIdAt(o, o.i) \notin DOMAIN tools /\ RunTagStepId(o) \notin DOMAIN tools

\* C8: a step that is no subworkflow and is registered neither under (stem,
\* plugin namespace) nor under the stem of its run tag raises the unknown-step
\* error in the step that looks it up; every enclosing activation is left and
\* no driver runs another pass.
C8_UnknownStep ==
    [][/\ (AtStep /\ ~IsSubworkflow(Once) /\ Unregistered(Once)) =>
             (exc' = "UnknownStep" /\ stack' = << >> /\ result' = << >>
              /\ main_pc' = "except")
       /\ exc # "" => (stack' = << >> /\ exc' = exc)]_vars
\* the unknown step is inside a subworkflow
C8_Witness == AtStep /\ ~IsSubworkflow(Once) /\ Unregistered(Once) /\ Len(stack) = 2


\* the step about to get its bindings has one binding: a raw token, bound to
\* a declared input of its tool
RawStep(o) ==
    LET st == o.steps[o.i + 1]
    IN /\ KnownClass(o.tool_i[1])
       /\ Len(st.in) = 1 /\ st.in[1].v.t = "raw"
       /\ DHas(o.tool_i[1].inputs, st.in[1].k)
       /\ ~SecondSite(o)
RawBinding(o) == o.steps[o.i + 1].in[1]
\* the token is the name of an input the workflow declares
NamesDeclaredInput(o, arg_val) ==
    arg_val.s = << >> /\ arg_val.v \in DKeySet(o.yaml_tree_orig.inputs)
\* the token is <step name>/<output> for a step before this one
NamesEarlierOutput(o, arg_val) ==
    \E j \in 1..o.i :
        /\ arg_val.s = <<o.names[j]>>
        /\ DHas(o.tools_lst[j].outputs, arg_val.v)
\* the step went through and its binding is still the token
LeftUnevaluated ==
    /\ exc' = "" /\ Len(stack') = Len(stack) /\ stack'[Len(stack)].once # << >>
    /\ stack'[Len(stack)].once[1].i = Once.i + 1
    /\ stack'[Len(stack)].once[1].steps[Once.i + 1].in[1] = RawBinding(Once)
\* the process ends with the warning that names the token and the workflow
ExitsWithWarning ==
    /\ exc' = "SystemExit" /\ stack' = << >> /\ result' = << >>
    /\ stdout' = <<[var |-> RawBinding(Once).v, file |-> Once.yaml_stem]>>

\* C9 as stated: with allow_raw_cwl off a raw token is accepted exactly when
\* it names a declared workflow input or an output of an earlier step, and
\* any other token aborts with the diagnostic; with allow_raw_cwl on it is
\* left unevaluated.
C9_InputOrEarlierOutput ==
    [][(AtBody /\ RawStep(Once)) =>
          IF args.allow_raw_cwl
             \/ NamesDeclaredInput(Once, RawBinding(Once).v)
             \/ NamesEarlierOutput(Once, RawBinding(Once).v)
          THEN LeftUnevaluated
          ELSE ExitsWithWarning]_vars
\* C9 amended: with allow_raw_cwl off a raw token is accepted exactly when it
\* names a declared input of the enclosing workflow; any other token, the
\* name of an earlier step's output included, ends the process (sys.exit)
\* after a warning that names the token and the workflow file.  With
\* allow_raw_cwl on the token is left unevaluated and compilation continues.
C9_DeclaredInputOnly ==
    [][(AtBody /\ RawStep(Once)) =>
          IF args.allow_raw_cwl \/ NamesDeclaredInput(Once, RawBinding(Once).v)
          THEN LeftUnevaluated
          ELSE ExitsWithWarning]_vars
\* the token names the output of the step before, and raw CWL is not allowed
C9_Witness ==
    /\ AtBody /\ RawStep(Once) /\ ~args.allow_raw_cwl
    /\ NamesEarlierOutput(Once, RawBinding(Once).v)

\* C10: after any fatal error main() has written error_<stem>.txt and exits
\* with status 1, and no CompilerInfo was returned.
C10_ErrorFileAndExit1 ==
    (main_pc = "done" /\ exc # "") => (error_file /\ exit_code = 1 /\ result = << >>)

RECURSIVE RoseNodes(_)
\* the NodeData of a RoseTree, the node itself first, then its subtrees in order
RoseNodes(t) ==
    LET RECURSIVE OfTrees(_)
        OfTrees(ts) == IF ts = << >> THEN << >> ELSE RoseNodes(Head(ts)) \o OfTrees(Tail(ts))
    IN <<t.data>> \o OfTrees(t.sub_trees)
StepIds(steps) == [j \in 1..Len(steps) |-> steps[j].id]

\* C11: the names a pass gives to the steps of its workflow are pairwise
\* distinct, and so are the step ids of the workflow a converged driver
\* returns.
C11_DistinctStepIds ==
    /\ \A f \in Frames : f.once # << >> => NoDup(f.once[1].names)
    /\ \A f \in Frames :
          Converged(f) => NoDup(StepIds(f.cw.compiler_info[1].rose.data.compiled.steps))

\* C12: in a RoseTree that a converged driver returns, nodes at different
\* positions carry different namespace paths.
C12_DistinctNamespacePaths ==
    \A f \in Frames :
        Converged(f) =>
            NoDup([j \in 1..Len(RoseNodes(f.cw.compiler_info[1].rose)) |->
                      RoseNodes(f.cw.compiler_info[1].rose)[j].namespaces])

\* the resolved step list and the input and output manifests of a node
Manifest(data) ==
    [steps |-> data.compiled.steps, inputs |-> data.compiled.inputs,
     outputs |-> data.compiled.outputs]

\* C13: a subworkflow compiled as a standalone root, with the explicit-edge
\* environments of its embedded compilation, compiles (no error), and its
\* node has the step list and the manifests of the embedded node; the node a
\* pass returns stores the environments that were passed in.
C13_EmbeddingIndependence ==
    /\ ~(result # << >> /\ exc # "")
    /\ \A f \in Frames :
          (f.cw.alone # << >> /\ Returning(f)) =>
              Manifest(f.cw.compiler_info[1].rose.data) = Manifest(f.cw.alone[1])
    /\ \A f \in Frames :
          f.cw.compiler_info # << >> =>
              /\ f.cw.compiler_info[1].rose.data.explicit_edge_defs = f.cw.explicit_edge_defs
              /\ f.cw.compiler_info[1].rose.data.explicit_edge_calls = f.cw.explicit_edge_calls

\* the subworkflows whose first step (cons) binds its input inp to the alias L
AliasCallers == {"call.wic", "ins.wic"}
\* step j of a compiled root is such a subworkflow, compiled with L defined
CallsDefined(j) ==
    /\ result[1].rose.data.yml.steps[j].id \in AliasCallers
    /\ DHas(result[1].rose.sub_trees[j].data.explicit_edge_defs, L1)
DefSite(j) == DGet(result[1].rose.sub_trees[j].data.explicit_edge_defs, L1)
\* stepY, and the name of the input that bridges the value into its workflow
StepY(j) == step_name_str(PathStem(result[1].rose.data.yml.steps[j].id), 0, "cons")
BindingOfY(j) == DGet(result[1].rose.sub_trees[j].data.compiled.steps[1].in, Inp)

\* C14 as stated: with L defined inside an earlier subworkflow, the binding
\* of stepY's input is a source reference of the form namespace/output.
C14_StepYNamespaceOutput ==
    result # << >> =>
        \A j \in 1..Len(result[1].rose.data.yml.steps) :
            (CallsDefined(j) /\ Len(DefSite(j).nss) = 2) =>
                (BindingOfY(j).t = "source" /\ BindingOfY(j).s # << >>)
\* C14 amended: stepY's input is bound to a source reference to a workflow
\* input of its own subworkflow, <stepY>___<input>, which is in that
\* subworkflow's input manifest; the namespace/output reference to the
\* defining side is the binding of that input on the subworkflow's step in
\* the root.
C14_BridgedAlias ==
    result # << >> =>
        \A j \in 1..Len(result[1].rose.data.yml.steps) :
            CallsDefined(j) =>
                LET sub == result[1].rose.sub_trees[j].data
                    in_name == <<StepY(j)>> \o Inp
                    site == DefSite(j)
                IN /\ BindingOfY(j) = Bind("source", << >>, in_name)
                   /\ DHas(sub.compiled.inputs, in_name)
                   /\ DHas(result[1].rose.data.compiled.steps[j].in, in_name)
                   /\ DGet(result[1].rose.data.compiled.steps[j].in, in_name)
                          = Bind("source", <<Head(site.nss)>>, Tail(site.nss) \o site.var)
\* the root [defl.wic, call.wic] has compiled
C14_Witness ==
    /\ result # << >> /\ Len(root.steps) = 2
    /\ root.steps[1].id = "defl.wic" /\ root.steps[2].id = "call.wic"

\* the step about to get its bindings calls, as its first binding, a label
\* that is defined
CallsDefinedLabel(o) ==
    LET st == o.steps[o.i + 1]
    IN /\ KnownClass(o.tool_i[1])
       /\ st.in # << >>
       /\ st.in[1].v.t = "alias"
       /\ DHas(o.tool_i[1].inputs, st.in[1].k)
       /\ DHas(o.explicit_edge_defs_copy, st.in[1].v.v)
CalledSite(o) == DGet(o.explicit_edge_defs_copy, o.steps[o.i + 1].in[1].v.v)
\* subgraphs[m] is the graph of the workflow at depth m - 1 of the running
\* pass's namespace path; the deepest one that contains the definition site
\* is the graph of the lowest common ancestor
Ancestors(cw, site) ==
    {m \in 1..(Len(cw.namespaces) + 1) : IsPrefix(SubSeq(cw.namespaces, 1, m - 1), site.nss)}
EdgesOf(h, id) == GraphValue(h, id).edges

\* C15: a step that binds an input to a defined label adds one edge, from
\* the definition path to its own path, to the graph of the lowest common
\* ancestor of the two paths, which is one of the graphs of the list; the
\* edges of every other graph of the list stay as they are.
C15_EdgeAtLowestCommonAncestor ==
    [][(AtBody /\ CallsDefinedLabel(Once) /\ exc' = "") =>
          LET cw == Top.cw
              lca == Max(Ancestors(cw, CalledSite(Once)))
          IN /\ lca \in 1..Len(cw.subgraphs)
             /\ EdgesOf(heap', cw.subgraphs[lca])
                   = Append(EdgesOf(heap, cw.subgraphs[lca]),
                            <<CalledSite(Once).nss, cw.namespaces \o <<Once.sn>> >>)
             /\ \A m \in 1..Len(cw.subgraphs) :
                   m # lca => EdgesOf(heap', cw.subgraphs[m]) = EdgesOf(heap, cw.subgraphs[m])]_vars
\* the call is inside a subworkflow, the definition outside of it
C15_Witness ==
    /\ AtBody /\ CallsDefinedLabel(Once) /\ Len(stack) = 2
    /\ Max(Ancestors(Top.cw, CalledSite(Once))) = 1
    /\ ~SecondSite(Once)


\* the steps of an AST that carry the annotation of an inserted step
InsertedAt(yml) ==
    {j \in 1..Len(yml.steps) :
        /\ DHas(yml.wic.steps, WicKey(j - 1, yml.steps[j].id))
        /\ DGet(yml.wic.steps, WicKey(j - 1, yml.steps[j].id)).inference}
\* step c of the compiled list takes an input from an output of step p
FedBy(steps, c, p) ==
    \E b \in 1..Len(steps[c].in) :
        steps[c].in[b].v.t = "source" /\ steps[c].in[b].v.s = <<steps[p].id>>
\* a pass is about to return early with an inserted step
Inserting == AtBody /\ Body.exc = "" /\ Body.cands # {}
\* s without its element at position p
Without(s, p) == SubSeq(s, 1, p - 1) \o SubSeq(s, p + 1, Len(s))
\* the steps of a node whose compiled tool or workflow has a txt output
TxtProducers(t) ==
    {m \in 1..Len(t.sub_trees) :
        \E b \in 1..Len(t.sub_trees[m].data.compiled.outputs) :
            t.sub_trees[m].data.compiled.outputs[b].v.format = "txt"}

\* C16: (a) a pass that proposes an adapter for step i (counted from 0)
\* returns the AST of its input with one proposed step at index i, the
\* consumer at i + 1 and all other steps in their order; (b) in the step list
\* of a converged driver every inserted step stands immediately before a
\* step that takes its output, and an inserted converter takes the output of
\* the nearest producer that precedes it.
C16_ConverterBeforeConsumer ==
    /\ [][Inserting =>
            LET i == Body.o.i
                old == Top.cw.yaml_tree.steps
                new == stack'[Len(stack')].cw.compiler_info[1].rose.data.yml.steps
            IN /\ Len(new) = Len(old) + 1
               /\ new[i + 1].id \in {sid.stem : sid \in Body.cands}
               /\ new[i + 2] = old[i + 1]
               /\ Without(new, i + 1) = old]_vars
    /\ [](\A f \in Frames :
            Converged(f) =>
               LET rose == f.cw.compiler_info[1].rose
                   yml == f.cw.compiler_info[1].rose.data.yml
                   steps == f.cw.compiler_info[1].rose.data.compiled.steps
               IN \A j \in InsertedAt(yml) :
                     /\ j < Len(steps) /\ FedBy(steps, j + 1, j)
                     /\ (yml.steps[j].id \in {"conv", "convb"} /\ \E m \in TxtProducers(rose) : m < j)
                            => FedBy(steps, j, Max({m \in TxtProducers(rose) : m < j})))
C16_Witness ==
    \E f \in Frames :
        /\ Converged(f) /\ Inserted(f) = 1
        /\ StepIds(f.cw.yaml_tree_ast.steps) = <<"prod", "consj">>
        /\ StepIds(f.cw.yaml_tree.steps) = <<"prod", "conv", "consj">>
        /\ FedBy(f.cw.compiler_info[1].rose.data.compiled.steps, 3, 2)
        /\ FedBy(f.cw.compiler_info[1].rose.data.compiled.steps, 2, 1)


\* the candidates in the order perform_edge_inference appends them
Discovered(cands) == SelectSeq(RegistryOrder, LAMBDA sid : sid \in cands)

\* C17: a pass with more than one insertion candidate does not abort, and the
\* step it inserts is the first candidate in discovery order.
C17_FirstCandidate ==
    [][(Inserting /\ Cardinality(Body.cands) > 1) =>
          /\ exc' = "" /\ stack' # << >>
          /\ LET new == stack'[Len(stack')].cw.compiler_info[1].rose.data.yml.steps
             IN new[Body.o.i + 1].id = Discovered(Body.cands)[1].stem]_vars


\* the required inputs of the atomic step j of a node that have no binding
Unbound(t, j) ==
    {k \in Range(ArgsRequired(t.sub_trees[j].data.tool[1])) :
        ~DHas(t.data.compiled.steps[j].in, k)}
RECURSIVE SilentlyUnbound(_)
\* the (node, step) pairs of a RoseTree with an unbound required input
SilentlyUnbound(t) ==
    {<<t.data.namespaces, j>> : j \in {m \in 1..Len(t.sub_trees) :
                                          /\ t.sub_trees[m].sub_trees = << >>
                                          /\ t.sub_trees[m].data.compiled.class # "Workflow"
                                          /\ Unbound(t, m) # {}}}
    \cup UNION {SilentlyUnbound(t.sub_trees[m]) : m \in 1..Len(t.sub_trees)}

\* C18: with inference disabled, a compilation that returns a CompilerInfo
\* has bound every required input of every atomic step; a required parameter
\* without a binding ends the compilation with an error instead.
C18_UnresolvedIsAnError ==
    (args.inference_disable /\ result # << >>) => SilentlyUnbound(result[1].rose) = {}


\* the inputs a tool requires, as stated: an atomic tool's inputs without a
\* default and with a type that is not nullable; all inputs of a workflow
RequiredAsStated(tool) ==
    IF tool.class = "Workflow" THEN DKeySet(tool.inputs)
    ELSE {tool.inputs[j].k : j \in {m \in 1..Len(tool.inputs) :
             /\ ~tool.inputs[m].v.dflt.has
             /\ ~(~tool.inputs[m].v.type.list /\ EndsWithQ(Last(tool.inputs[m].v.type.names)))
             /\ ~(tool.inputs[m].v.type.list /\ "null" \in Range(tool.inputs[m].v.type.names))}}

\* C19: when a pass binds the inputs of a step, the inputs it takes as
\* required are those of RequiredAsStated; for a workflow step every declared
\* input then has a binding, the bindings given are kept, and the others are
\* identity bindings.
C19_RequiredInputs ==
    (AtBody /\ KnownClass(Once.tool_i[1])) =>
        LET tool_i == Once.tool_i[1]
            given == Once.steps[Once.i + 1].in
            bound == BodyHead(Once, Top.cw, heap).o.steps[Once.i + 1].in
        IN /\ Range(ArgsRequired(tool_i)) = RequiredAsStated(tool_i)
           /\ tool_i.class = "Workflow" =>
                 /\ \A k \in DKeySet(tool_i.inputs) : DHas(bound, k)
                 /\ \A k \in DKeySet(given) : DGet(bound, k) = DGet(given, k)
                 /\ \A k \in DKeySet(tool_i.inputs) \ DKeySet(given) :
                       DGet(bound, k) = Bind("raw", << >>, k)


\* the compiled subworkflows of the passes in progress
CompiledSubworkflows ==
    UNION {{f.once[1].tools_lst[j] : j \in {m \in 1..Len(f.once[1].tools_lst) :
                                               f.once[1].tools_lst[m].class = "Workflow"}} :
           f \in {g \in Frames : g.once # << >>}}

\* C20: (a) no step of the compilation removes or changes an entry of the
\* registry; (b) once a pass has compiled a subworkflow step, the registry
\* holds a composite entry for that subworkflow under its name.
C20_RegistryAppendOnly ==
    /\ [][\A sid \in DOMAIN tools : sid \in DOMAIN tools' /\ tools'[sid] = tools[sid]]_vars
    /\ [](\A t \in CompiledSubworkflows :
             \E sid \in DOMAIN tools : sid.stem = t.run_stem /\ tools[sid] = t)


\* the pass that cw has just made compiled a subworkflow step whose driver
\* returned an AST different from the one the pass handed to it
ChildChanged(cw) ==
    \E j \in 1..Len(cw.compiler_info[1].rose.sub_trees) :
        /\ cw.yaml_tree.steps[j].subtree # << >>
        /\ cw.compiler_info[1].rose.sub_trees[j].data.yml # cw.yaml_tree.steps[j].subtree[1]

\* C21: when a pass has compiled a child whose AST changed, the driver finds
\* the AST the pass returned different from the pass's input, takes it as the
\* new AST and goes round the loop again.
C21_ChildChangePropagates ==
    [][(Running /\ Top.cw.pc = "after" /\ ChildChanged(Top.cw)) =>
          /\ stack'[Len(stack)].cw.ast_modified
          /\ stack'[Len(stack)].cw.yaml_tree # Top.cw.yaml_tree]_vars


\* the length of the longest common prefix of two paths
CommonLen(a, b) ==
    Max({n \in 0..Min({Len(a), Len(b)}) : SubSeq(a, 1, n) = SubSeq(b, 1, n)})
\* what the claim states about the binding of arg_key whose definition is at
\* site, in the pass of workflow cw at the step that o is at and r has bound
RoutedAsStated(cw, o, r, site, arg_key, unit_is_ancestor) ==
    LET nss_def == site.nss \o Front(site.var)
        nss_call == (cw.namespaces \o <<o.sn>>) \o Front(arg_key)
        n == CommonLen(nss_def, nss_call)
        in_name == <<o.sn>> \o arg_key
        bound == DGet(r.o.steps[o.i + 1].in, arg_key)
    IN /\ partition_by_lowest_common_ancestor(nss_def, nss_call).inits = SubSeq(nss_call, 1, n)
       /\ partition_by_lowest_common_ancestor(nss_call, nss_def).inits = SubSeq(nss_call, 1, n)
       /\ IF unit_is_ancestor
          THEN bound = Bind("source", <<nss_def[n + 1]>>,
                            SubSeq(nss_def, n + 2, Len(nss_def)) \o <<Last(site.var)>>)
          ELSE /\ bound = Bind("source", << >>, in_name)
               /\ DHas(r.o.inputs_workflow, in_name)
               /\ DGet(r.o.explicit_edge_calls_copy, in_name) = site
\* the alias bindings of the step a pass is at whose label has a definition
DefinedAliases ==
    {e \in Range(Once.steps[Once.i + 1].in) :
        /\ e.v.t = "alias"
        /\ DHas(BodyHead(Once, Top.cw, heap).o.explicit_edge_defs_copy, e.v.v)}
\* the inputs of the subworkflow step a pass is at that the subworkflow
\* exposed for an alias whose definition is known
PassedUp ==
    {k \in Range(ArgsRequired(Once.tool_i[1])) :
        /\ Once.tool_i[1].class = "Workflow"
        /\ ~DHas(Once.steps[Once.i + 1].in, k)
        /\ ~DHas(Once.inputs_file_workflow, <<Once.sn>> \o k)
        /\ DHas(Once.explicit_edge_calls_copy, k)
        /\ LET site == DGet(Once.explicit_edge_calls_copy, k)
           IN site.nss \o Front(site.var) # (Top.cw.namespaces \o <<Once.sn>>) \o Front(k)}

\* C22: (a) a step that binds an input to a defined alias gets the source
\* <first definition tail>/<rest of the tail and the output, joined> when its
\* call path has one level below the common prefix of the definition path and
\* the call path, and otherwise gets a new workflow input <step>___<param>
\* with the call recorded under it; (b) a subworkflow step whose subworkflow
\* exposed such an input gets the same treatment one level up: exposed again
\* while the workflow is below the common prefix, bound to the source at it.
C22_AliasRouting ==
    (AtBody /\ Body.exc = "") =>
        /\ \A e \in DefinedAliases :
              LET site == DGet(BodyHead(Once, Top.cw, heap).o.explicit_edge_defs_copy, e.v.v)
                  nss_def == site.nss \o Front(site.var)
                  nss_call == (Top.cw.namespaces \o <<Once.sn>>) \o Front(e.k)
              IN RoutedAsStated(Top.cw, Once, Body, site, e.k,
                                Len(nss_call) - CommonLen(nss_def, nss_call) = 1)
        /\ \A k \in PassedUp :
              LET site == DGet(Once.explicit_edge_calls_copy, k)
                  nss_def == site.nss \o Front(site.var)
                  nss_call == (Top.cw.namespaces \o <<Once.sn>>) \o Front(k)
              IN RoutedAsStated(Top.cw, Once, Body, site, k,
                                Len(Top.cw.namespaces) = CommonLen(nss_def, nss_call))
\* a call three levels down: exposed by its own workflow, exposed again by
\* the workflow around it, bound in the root, where the definition is
C22_Witness ==
    /\ AtBody /\ Body.exc = "" /\ Len(stack) = 1 /\ Len(Once.names) = 2
    /\ PassedUp # {} /\ \A k \in PassedUp : Len(k) = 3
    /\ Once.rose_tree_list[2].data.name = "outer"
    /\ \E k \in DKeySet(Once.rose_tree_list[2].data.compiled.inputs) : Len(k) = 3


\* the arguments of compile_workflow_once as the driver holds them
PassArguments(cw) ==
    <<cw.yaml_tree, cw.explicit_edge_defs, cw.explicit_edge_calls,
      cw.input_mapping, cw.output_mapping>>

Complete(data) == Len(data.compiled.steps) = Len(data.yml.steps)
RECURSIVE Literals(_, _)
\* the inline literals of a RoseTree: <<fully namespaced key, value>>
Literals(t, prefix) ==
    {<<(prefix \o <<t.data.compiled.steps[j].id>>) \o t.data.yml.steps[j].in[b].k,
       t.data.yml.steps[j].in[b].v.v>> :
        <<j, b>> \in {jb \in (1..Len(t.data.yml.steps)) \X (1..2) :
                        /\ jb[2] <= Len(t.data.yml.steps[jb[1]].in)
                        /\ t.data.yml.steps[jb[1]].in[jb[2]].v.t = "ii"}}
    \cup UNION {Literals(t.sub_trees[j], prefix \o <<t.data.compiled.steps[j].id>>) :
                  j \in {m \in 1..Len(t.sub_trees) : t.sub_trees[m].sub_trees # << >>}}
RECURSIVE AllComplete(_)
AllComplete(t) ==
    /\ Complete(t.data)
    /\ \A j \in 1..Len(t.sub_trees) :
          t.sub_trees[j].sub_trees # << >> => AllComplete(t.sub_trees[j])
\* every literal of the tree is bound, in the workflow of its step, to the
\* workflow input <step>___<param>, and so is the subworkflow step around it
RECURSIVE LiteralsBound(_)
LiteralsBound(t) ==
    /\ \A j \in 1..Len(t.sub_trees) :
          LET step == t.data.compiled.steps[j]
          IN IF t.sub_trees[j].sub_trees = << >>
             THEN \A b \in 1..Len(t.data.yml.steps[j].in) :
                     t.data.yml.steps[j].in[b].v.t = "ii" =>
                        DGet(step.in, t.data.yml.steps[j].in[b].k)
                           = Bind("source", << >>, <<step.id>> \o t.data.yml.steps[j].in[b].k)
             ELSE /\ LiteralsBound(t.sub_trees[j])
                  /\ \A l \in Literals(t.sub_trees[j], << >>) :
                        /\ DHas(step.in, l[1])
                        /\ DGet(step.in, l[1]).s = << >>
                        /\ DGet(step.in, l[1]).v = <<step.id>> \o l[1]
Valued(manifest) == {<<manifest[j].k, manifest[j].v.value>> : j \in 1..Len(manifest)}

\* C24: a driver that converged on a tree of completely compiled workflows
\* returns an inputs manifest that holds exactly the inline literals of the
\* tree, each once, under its step names joined from the workflow down to
\* the parameter; and every literal is bound through the source references
\* <step>___<param> at each level.
C24_LiteralsInManifest ==
    \A f \in Frames :
        (Converged(f) /\ AllComplete(f.cw.compiler_info[1].rose)) =>
            /\ Valued(f.cw.compiler_info[1].env.inputs_file_workflow)
                  = Literals(f.cw.compiler_info[1].rose, << >>)
            /\ NoDup(DKeys(f.cw.compiler_info[1].env.inputs_file_workflow))
            /\ LiteralsBound(f.cw.compiler_info[1].rose)
\* the root holds a literal of its own and two from two levels of subworkflows
C24_Witness ==
    \E f \in Frames :
        /\ Converged(f) /\ Len(stack) = 1 /\ AllComplete(f.cw.compiler_info[1].rose)
        /\ {Len(l[1]) : l \in Literals(f.cw.compiler_info[1].rose, << >>)} = {2, 3, 4}


\* C25: a driver that leaves its loop converged after fewer than max_iters
\* passes returns the CompilerInfo of its last pass and raises nothing.
C25_RaisesOnlyAtCeiling ==
    [][(Running /\ Top.cw.pc = "commit" /\ ~Top.cw.ast_modified /\ Top.cw.i < max_iters) =>
          /\ exc' = exc
          /\ IF Len(stack) = 1 THEN result' = <<Top.cw.compiler_info[1]>>
             ELSE Len(stack') = Len(stack) - 1]_vars

\* The steps of a pass that are atomic tools and that the pass has finished
ToolStepsDone(o) == {j \in 1..o.i : o.steps_keys[j] \notin get_subkeys(o.steps_keys)}
NodeOf(cw, o, j) == cw.namespaces \o <<StepNameOrKey(o, j - 1, tools)>>
InGraphviz(graph, name) == \E k \in 1..Len(heap.reps[graph].body) : heap.reps[graph].body[k] = GvNode(name)
InNetworkx(graph, name) == name \in heap.reps[graph].nxn
InGraphData(graph, name) == \E k \in 1..Len(heap.lists[heap.gds[heap.reps[graph].gd].nodes]) : heap.lists[heap.gds[heap.reps[graph].gd].nodes][k] = name
ToolAfterSubworkflow(o) == \E j \in ToolStepsDone(o) : \E k \in 1..(j - 1) : o.steps_keys[k] \in get_subkeys(o.steps_keys)

\* C26: in a pass in progress every atomic-tool step already compiled has its
\* node in the graphviz, the networkx and the GraphData representation of the
\* graph accumulator of the workflow being compiled, also when the step comes
\* after a subworkflow step.
C26_ToolNodesInOwnGraph ==
    (InPass /\ exc = "") =>
        \A j \in ToolStepsDone(Once) :
            LET graph == Last(Top.cw.subgraphs)
                name == NodeOf(Top.cw, Once, j)
            IN /\ InGraphviz(graph, name)
               /\ InNetworkx(graph, name)
               /\ InGraphData(graph, name)

\* A compiled subworkflow is handed back to the pass that called it
ChildReturns == Running /\ Len(stack) >= 2 /\ Top.cw.pc = "commit" /\ Len(stack') = Len(stack) - 1
Caller == stack[Len(stack) - 1].once[1]
CallerAfter == stack'[Len(stack')].once[1]
ChildEnv == Top.cw.compiler_info[1].env
\* the entries of d whose key the child was not given by its caller
OriginatedInChild(d, given) == SelectSeq(d, LAMBDA e : ~DHas(given, e.k))
InheritedKeys(d, given) == {<<Caller.sn>> \o d[j].k : j \in {m \in 1..Len(d) : DHas(given, d[m].k)}}

\* C27: when a subworkflow returns, its caller's running input_mapping and
\* output_mapping gain exactly the entries that originated inside the child,
\* with the step's name in front; entries the child inherited from the
\* caller's running mappings are not added again.
C27_MergeOnlyOwnEntries ==
    [][ChildReturns =>
          /\ CallerAfter.input_mapping_copy =
                DUpdate(Caller.input_mapping_copy,
                        Namespaced(OriginatedInChild(ChildEnv.input_mapping, Caller.input_mapping_copy), Caller.sn))
          /\ CallerAfter.output_mapping_copy =
                DUpdate(Caller.output_mapping_copy,
                        Namespaced(OriginatedInChild(ChildEnv.output_mapping, Caller.output_mapping_copy), Caller.sn))]_vars

\* The bindings of the step being compiled that name an alias label for which
\* no definition has been recorded
StepHead == BodyHead(Once, Top.cw, heap)
UndefinedAliases ==
    LET o == StepHead.o
        in == o.steps[o.i + 1].in
    IN {in[j].k : j \in {m \in 1..Len(in) : in[m].v.t = "alias" /\ ~DHas(o.explicit_edge_defs_copy, in[m].v.v)}}
ExposedAsInput(o, cw, i, arg_key) ==
    LET in_name == <<o.sn>> \o arg_key
    IN /\ DHas(o.inputs_workflow, in_name)
       /\ DGet(o.steps[i + 1].in, arg_key) = Bind("source", << >>, in_name)
       /\ DHas(o.explicit_edge_calls_copy, in_name)
       /\ DGet(o.explicit_edge_calls_copy, in_name) = EdgeSite(cw.namespaces \o <<o.sn>>, arg_key)

\* C28: a step binding an alias label that has no definition raises the
\* no-definition error exactly when the unit is the root and testing is off;
\* otherwise the parameter becomes the workflow input <step>___<param>, the
\* step is bound to it, a placeholder call entry is recorded under that name,
\* and compilation continues.
C28_UndefinedAlias ==
    [][(AtBody /\ Going(StepHead) /\ UndefinedAliases # {}) =>
          IF Top.cw.is_root /\ ~Top.cw.testing
          THEN exc' = "NoDefinition"
          ELSE /\ exc' # "NoDefinition"
               /\ exc' = "" =>
                     /\ Len(stack') = Len(stack)
                     /\ \A arg_key \in UndefinedAliases :
                           ExposedAsInput(stack'[Len(stack')].once[1], Top.cw, Once.i, arg_key)]_vars
C28_Witness ==
    /\ InPass /\ Top.cw.is_root /\ Top.cw.testing /\ Once.i >= 1
    /\ \E arg_key \in DKeySet(Once.steps[1].in) :
          LET o == [Once EXCEPT !.sn = StepNameOrKey(Once, 0, tools)]
          IN ExposedAsInput(o, Top.cw, 0, arg_key)

\* Both pipes read to end-of-file, each into its own log file
Drained ==
    /\ cwl_run.proc # << >>
    /\ cwl_run.out.pc = "done" /\ cwl_run.out.log = cwl_run.proc[1].stdout
    /\ cwl_run.err.pc = "done" /\ cwl_run.err.log = cwl_run.proc[1].stderr
CaughtException == cwl_run.e # ""
NonZeroExit == cwl_run.waited /\ cwl_run.proc[1].returncode # 0

\* C29: copy_output_files is invoked only for cwltool and exit code 0, and
\* only after both streams were drained to end-of-file, each into its own
\* log file, and the process was waited for (the wait itself comes after the
\* draining); after a non-zero exit code or a caught exception nothing is
\* copied and the exit code, or None, is returned.
C29_CopyOnlyAfterSuccess ==
    /\ cwl_run.waited => Drained
    /\ cwl_run.copied =>
          /\ cwl_run.cwl_runner = "cwltool"
          /\ cwl_run.waited /\ Drained
          /\ cwl_run.proc[1].returncode = 0 /\ cwl_run.retval = <<0>>
    /\ (cwl_run.pc = "returned" /\ CaughtException) =>
          ~cwl_run.copied /\ cwl_run.retval = << >>
    /\ (cwl_run.pc = "returned" /\ ~CaughtException /\ NonZeroExit) =>
          ~cwl_run.copied /\ cwl_run.retval = <<cwl_run.proc[1].returncode>>
C29_Witness ==
    /\ cwl_run.pc = "returned" /\ cwl_run.copied
    /\ Len(cwl_run.out.log) = MaxChunks /\ cwl_run.err.log # << >>

\* create_safe_env has been called by run_cwl_workflow
EnvCreated == cwl_run.pc \notin {"idle", "check", "env", "raised"}
HasForbiddenKey ==
    \E key \in DKeySet(cwl_run.user_env) : \E prefix \in forbidden : IsPrefix(prefix, key)
Overridden(env, environ, user_env) ==
    /\ DKeySet(env) = DKeySet(environ) \cup DKeySet(user_env)
    /\ \A a, b \in 1..Len(env) : env[a].k = env[b].k => a = b
    /\ \A key \in DKeySet(env) :
          DGet(env, key) = IF DHas(user_env, key) THEN DGet(user_env, key) ELSE DGet(environ, key)

\* C30: with a user_env key that starts with a forbidden prefix
\* create_safe_env raises ValueError, the process environment stays as it
\* was, no subprocess is started and run_cwl_workflow returns None;
\* otherwise create_safe_env does not raise and the subprocess gets the
\* process environment overridden by the user's entries.
C30_SafeEnv ==
    /\ cwl_run.environ = OsEnviron
    /\ (EnvCreated /\ HasForbiddenKey) =>
          /\ cwl_run.e = "ValueError" /\ cwl_run.exec_env = << >>
          /\ cwl_run.proc = << >> /\ cwl_run.out.pc = "none" /\ cwl_run.err.pc = "none"
          /\ cwl_run.pc = "returned" => cwl_run.retval = << >>
    /\ (EnvCreated /\ ~HasForbiddenKey) => cwl_run.e # "ValueError"
    /\ cwl_run.proc # << >> =>
          /\ ~HasForbiddenKey
          /\ Overridden(cwl_run.proc[1].env, OsEnviron, cwl_run.user_env)
C30_Witness ==
    /\ cwl_run.pc = "returned" /\ HasForbiddenKey /\ DHas(cwl_run.user_env, s_HOME)
    /\ cwl_run.retval = << >> /\ cwl_run.proc = << >>

====
